---- MODULE Spec2Model ----
(***************************************************************************)
(* Model of static_frame's Frame / FrameGO (core/frame.py) and of the       *)
(* apply / apply_pool delegates (core/iter_node.py).                        *)
(*                                                                          *)
(* Labels and cell values are small integers.  A TypeBlocks instance is a   *)
(* record [cols, dtypes, widths, shape]: the columns (each a sequence of    *)
(* row values), their dtypes, and the widths of the consecutive blocks.     *)
(***************************************************************************)
EXTENDS Integers, Sequences, FiniteSets, TLC

VARIABLES
    frame,          \* the Frame an operation is applied to
    result,         \* what the last operation returned or raised
    call,           \* the last operation and its arguments
    node,           \* an IterNodeDelegate and the func given to apply
    pc,             \* where the apply_pool call is
    executor,       \* the pool of the apply_pool call
    func_keys,      \* keys captured by arg_gen
    futures,        \* the outcome of each submitted unit of work
    done_order,     \* the units of work in the order the workers finished
    delivered,      \* pairs yielded to the apply constructor
    pool_result     \* what apply_pool returned or raised

frameVars == <<frame, result, call>>

poolVars == <<node, pc, executor, func_keys, futures, done_order, delivered,
              pool_result>>

vars == <<frame, result, call, node, pc, executor, func_keys, futures,
          done_order, delivered, pool_result>>

-----------------------------------------------------------------------------
(* Bounds *)

MaxRows == 2
MaxCols == 2
MaxLabel == 3

\* largest axis length of the frames that selections are taken from
MaxAxis == 2

\* largest number of items an axis iteration yields
MaxItems == 2

\* largest number of columns a FrameGO is grown to
MaxGoCols == 3

\* largest number of columns of a displayed frame, and largest display_columns
MaxDisplay == 9

-----------------------------------------------------------------------------
(* Generic helpers *)

NaN == -1

NoCount == -2

Labels == 1..MaxLabel

RECURSIVE SumSeq(_)
SumSeq(s) == IF s = <<>> THEN 0 ELSE Head(s) + SumSeq(Tail(s))

SeqToSet(s) == {s[i] : i \in 1..Len(s)}

IsUnique(s) == \A i, j \in 1..Len(s) : s[i] = s[j] => i = j

PosOf(s, x) == CHOOSE i \in 1..Len(s) : s[i] = x

\* range(n): the labels 0 .. n-1
RangeLabels(n) == [i \in 1..n |-> i - 1]

\* all sequences over S of length at most n
SeqsUpTo(S, n) == UNION {[1..k -> S] : k \in 0..n}

UniqueSeqsUpTo(S, n) == {s \in SeqsUpTo(S, n) : IsUnique(s)}

-----------------------------------------------------------------------------
(* TypeBlocks *)

\* A TypeBlocks: the columns in order, the dtype of each column, the widths
\* of the consecutive blocks that hold them, and the shape (rows, columns).
TB(cols, dtypes, widths, shape) ==
    [cols |-> cols, dtypes |-> dtypes, widths |-> widths, shape |-> shape]

EmptyTB == TB(<<>>, <<>>, <<>>, <<0, 0>>)

\* TypeBlocks.from_none(shape): no blocks, the given zero-size shape
TBFromNone(shape) == TB(<<>>, <<>>, <<>>, shape)

\* TypeBlocks.from_blocks on one 2D array of r rows holding the columns cols
TBFromArray(dtype, r, cols) ==
    TB(cols, [j \in 1..Len(cols) |-> dtype],
       IF Len(cols) = 0 THEN <<>> ELSE <<Len(cols)>>, <<r, Len(cols)>>)

\* a 2D array of r rows and c columns holding distinct integers
Grid(r, c) == [j \in 1..c |-> [i \in 1..r |-> 10 * i + j]]

\* np.full(shape, element)
Full(r, c, element) == [j \in 1..c |-> [i \in 1..r |-> element]]

\* the value at row i, column j (1-based) read through the column interface
Cell(tb, i, j) == tb.cols[j][i]

-----------------------------------------------------------------------------
(* Results of an operation: a Frame, a Series, a scalar or a raised error *)

NoFrame == [cls |-> "", index |-> <<>>, columns |-> <<>>,
            blocks |-> EmptyTB, name |-> 0]

NoSeries == [values |-> <<>>, index |-> <<>>, name |-> 0]

ResNone == [kind |-> "none", exc |-> "", frame |-> NoFrame,
            series |-> NoSeries, scalar |-> 0]

ResErr(e) == [ResNone EXCEPT !.kind = "error", !.exc = e]

ResFrame(f) == [ResNone EXCEPT !.kind = "frame", !.frame = f]

ResSeries(s) == [ResNone EXCEPT !.kind = "series", !.series = s]

ResScalar(v) == [ResNone EXCEPT !.kind = "scalar", !.scalar = v]

-----------------------------------------------------------------------------
(* Frame.__init__ *)

\* an index / columns argument: None, a plain sequence, or an Index object
ArgNone == [kind |-> "None", labels |-> <<>>]

ArgSeq(labels) == [kind |-> "seq", labels |-> labels]

ArgIndex(labels) == [kind |-> "Index", labels |-> labels]

ArgIndexGO(labels) == [kind |-> "IndexGO", labels |-> labels]

ColumnConstructorStatic(cls) == cls = "Frame"

\* hasattr(x, STATIC_ATTR) and x.STATIC
ArgIsStatic(arg) == arg.kind = "Index"

\* the data argument
DataTB(tb) == [kind |-> "TypeBlocks", tb |-> tb, element |-> 0]

DataArray(r, c) == [kind |-> "ndarray", tb |-> TBFromArray("int", r, Grid(r, c)),
                    element |-> 0]

DataNone == [kind |-> "None", tb |-> EmptyTB, element |-> 0]

DataElement(e) == [kind |-> "element", tb |-> EmptyTB, element |-> e]

DataDict == [kind |-> "dict", tb |-> EmptyTB, element |-> 0]

\* the size check that closes Frame.__init__
IndexSizeOk(index_len, row_count) == ~(row_count # 0 /\ index_len # row_count)

ColumnsSizeOk(columns_len, col_count) == columns_len = col_count

FrameInit(cls, data, index, columns, name, own_index, own_columns) ==
    IF data.kind = "dict" THEN ResErr("RuntimeError")
    ELSE
    LET has_constructor == data.kind \in {"None", "element"}
        from_none == data.kind = "None"
                        /\ (columns.kind = "None" \/ index.kind = "None")
        row_count0 == IF has_constructor THEN NoCount ELSE data.tb.shape[1]
        col_count0 == IF has_constructor THEN NoCount ELSE data.tb.shape[2]
        \* columns assignment
        col_direct == own_columns
                        \/ (ArgIsStatic(columns) /\ ColumnConstructorStatic(cls))
        col_default == ~col_direct
                        /\ (columns.kind = "None" \/ Len(columns.labels) = 0)
        col_count1 == IF col_default /\ col_count0 = NoCount THEN 0 ELSE col_count0
        col_labels == IF col_default THEN RangeLabels(col_count1)
                      ELSE columns.labels
        col_dup == ~col_direct /\ ~col_default /\ ~IsUnique(columns.labels)
        \* index assignment
        idx_direct == own_index \/ ArgIsStatic(index)
        idx_default == ~idx_direct
                        /\ (index.kind = "None" \/ Len(index.labels) = 0)
        row_count1 == IF idx_default /\ row_count0 = NoCount THEN 0 ELSE row_count0
        idx_labels == IF idx_default THEN RangeLabels(row_count1)
                      ELSE index.labels
        idx_dup == ~idx_direct /\ ~idx_default /\ ~IsUnique(index.labels)
        \* deferred blocks construction
        row_count == IF has_constructor THEN Len(idx_labels) ELSE row_count1
        col_count == IF has_constructor THEN Len(col_labels) ELSE col_count1
        blocks == IF ~has_constructor THEN data.tb
                  ELSE IF from_none THEN TBFromNone(<<row_count, col_count>>)
                  ELSE TBFromArray("object", row_count,
                                   Full(row_count, col_count, data.element))
    IN  IF col_dup \/ idx_dup THEN ResErr("ConstructionError")
        ELSE IF ~IndexSizeOk(Len(idx_labels), row_count) THEN ResErr("RuntimeError")
        ELSE IF ~ColumnsSizeOk(Len(col_labels), col_count) THEN ResErr("RuntimeError")
        ELSE ResFrame([cls |-> cls, index |-> idx_labels, columns |-> col_labels,
                       blocks |-> blocks, name |-> name])

-----------------------------------------------------------------------------
(* IterNodeDelegate: apply and apply_pool *)

\* An item of an axis iteration is a pair (k, v) of integers.  What a func
\* is called with is a value v or a pair (k, v); a pair is encoded as one
\* integer distinct from every value.
Item(k, v) == [k |-> k, v |-> v]

EncPair(k, v) == 10 * k + v

\* the func argument: a callable of one or two positional parameters that
\* raises on the arguments in raises, or a mapping with the keys in keys
Callable(arity, raises) ==
    [kind |-> "callable", arity |-> arity, raises |-> raises, keys |-> {}]

Mapping(keys) == [kind |-> "mapping", arity |-> 1, raises |-> {}, keys |-> keys]

OutValue(x) == [kind |-> "value", value |-> x, exc |-> ""]

OutExc(e) == [kind |-> "exc", value |-> 0, exc |-> e]

\* func(*args) for a callable
CallCallable(func, args) ==
    IF Len(args) # func.arity THEN OutExc("TypeError")
    ELSE LET x == IF Len(args) = 1 THEN args[1] ELSE EncPair(args[1], args[2])
         IN  IF x \in func.raises THEN OutExc("ValueError")
             ELSE OutValue(100 + x)

\* mapping.__getitem__(*args)
CallGetItem(func, args) ==
    IF Len(args) # 1 THEN OutExc("TypeError")
    ELSE IF args[1] \notin func.keys THEN OutExc("KeyError")
    ELSE OutValue(50 + args[1])

\* mapping.__contains__(x)
CallContains(func, x) == x \in func.keys

\* func, or getattr(func, '__getitem__') when func is not callable
CallFunc(func, args) ==
    IF func.kind = "callable" THEN CallCallable(func, args)
    ELSE CallGetItem(func, args)

\* apply_iter_items: what is yielded for one item
ApplyIterItem(yield_type, func, item) ==
    LET yt_is_values == yield_type = "VALUES"
        condition == func.kind = "mapping"
    IN  IF condition /\ ~CallContains(func, item.v)
        THEN IF yt_is_values THEN OutValue(item.v)
             ELSE OutValue(EncPair(item.k, item.v))
        ELSE IF yt_is_values THEN CallFunc(func, <<item.v>>)
             ELSE CallFunc(func, <<item.k, item.v>>)

\* _apply_iter_items_parallel: what arg_gen yields for one item, and the
\* outcome of the unit of work executor.map runs on it
ArgGen(yield_type, item) ==
    IF yield_type = "VALUES" THEN item.v ELSE EncPair(item.k, item.v)

WorkerCall(yield_type, func, item) == CallFunc(func, <<ArgGen(yield_type, item)>>)

\* the apply constructor (Series.from_items): consumes the pairs; the first
\* exception raised by the generator propagates and no container is built
Constructed(pairs) ==
    ResSeries([values |-> [i \in 1..Len(pairs) |-> pairs[i][2]],
               index |-> [i \in 1..Len(pairs) |-> pairs[i][1]],
               name |-> 0])

\* apply(func)
Apply(yield_type, func, items) ==
    LET out == [i \in 1..Len(items) |-> ApplyIterItem(yield_type, func, items[i])]
        bad == {i \in 1..Len(items) : out[i].kind = "exc"}
    IN  IF bad # {}
        THEN ResErr(out[CHOOSE i \in bad : \A j \in bad : i <= j].exc)
        ELSE Constructed([i \in 1..Len(items) |-> <<items[i].k, out[i].value>>])

Pending == [kind |-> "pending", value |-> 0, exc |-> ""]

Cancelled == [kind |-> "cancelled", value |-> 0, exc |-> ""]

\* executor.map yields results in the order the units of work were submitted
NextResult_Completion(n_delivered, order) ==
    IF n_delivered < Len(order) THEN order[n_delivered + 1] ELSE 0

NextResult(n_delivered, order) == n_delivered + 1

\* a unit of work that raised makes the result iterator raise
ResultRaises_Never(outcome) == FALSE

ResultRaises(outcome) == outcome.kind = "exc"

PoolIdle ==
    /\ node = [items |-> <<>>, yield_type |-> "VALUES", func |-> Callable(1, {})]
    /\ pc = "idle"
    /\ executor = "none"
    /\ func_keys = <<>>
    /\ futures = <<>>
    /\ done_order = <<>>
    /\ delivered = <<>>
    /\ pool_result = ResNone

-----------------------------------------------------------------------------
(* Specification of construction: Frame(data, index=..., columns=...) *)

Classes == {"Frame", "FrameGO"}

CtorData == {DataArray(r, c) : r \in 0..MaxRows, c \in 0..MaxCols}
                \cup {DataNone, DataElement(7), DataDict}

CtorArgs == {ArgNone}
                \cup {ArgSeq(s) : s \in SeqsUpTo(Labels, MaxRows)}
                \cup {ArgIndex(s) : s \in UniqueSeqsUpTo(Labels, MaxRows)}
                \cup {ArgIndexGO(s) : s \in UniqueSeqsUpTo(Labels, MaxRows)}

NoCall == [op |-> "none", cls |-> "", data |-> DataNone,
           index |-> ArgNone, columns |-> ArgNone]

InitCtor ==
    /\ frame = NoFrame
    /\ result = ResNone
    /\ call = NoCall
    /\ PoolIdle

\* one constructor call per behaviour: a call depends on its arguments only
Construct ==
    /\ call.op = "none"
    /\ \E cls \in Classes, data \in CtorData, index \in CtorArgs, columns \in CtorArgs :
        /\ result' = FrameInit(cls, data, index, columns, 0, FALSE, FALSE)
        /\ call' = [op |-> "Frame", cls |-> cls, data |-> data,
                    index |-> index, columns |-> columns]
        /\ frame' = IF result'.kind = "frame" THEN result'.frame ELSE frame
        /\ UNCHANGED poolVars

NextCtor == Construct

SpecCtor == InitCtor /\ [][NextCtor]_vars

\* C1: every Frame the constructor returns has len(index) equal to the block
\* store's row count and len(columns) equal to its column count.
C1_ShapeInvariant ==
    (call.op = "Frame" /\ result.kind = "frame") =>
        /\ Len(result.frame.index) = result.frame.blocks.shape[1]
        /\ Len(result.frame.columns) = result.frame.blocks.shape[2]

-----------------------------------------------------------------------------
(* Selection keys *)

\* A position (iloc) key: None, the null slice, an integer, a slice with
\* integer bounds, or a list of integers.  Positions in keys are 0-based as
\* in the source; sequences in the model are 1-based.
KeyNone == [kind |-> "None", i |-> 0, start |-> 0, stop |-> 0, items |-> <<>>]

KeyNullSlice == [KeyNone EXCEPT !.kind = "null_slice"]

KeyInt(i) == [KeyNone EXCEPT !.kind = "int", !.i = i]

KeySlice(a, b) == [KeyNone EXCEPT !.kind = "slice", !.start = a, !.stop = b]

KeyList(items) == [KeyNone EXCEPT !.kind = "list", !.items = items]

KeyError == [KeyNone EXCEPT !.kind = "KeyError"]

\* isinstance(key, KEY_MULTIPLE_TYPES)
IsKeyMultiple(key) == key.kind \in {"null_slice", "slice", "list"}

IsKeySlice(key) == key.kind \in {"null_slice", "slice"}

\* the 1-based positions a key selects on an axis of length n, in key order
KeyPositions(key, n) ==
    CASE key.kind \in {"None", "null_slice"} -> [k \in 1..n |-> k]
      [] key.kind = "int" -> <<key.i + 1>>
      [] key.kind = "slice" -> [k \in 1..(key.stop - key.start) |-> key.start + k]
      [] key.kind = "list" -> [k \in 1..Len(key.items) |-> key.items[k] + 1]

\* the valid position keys of an axis of length n
IlocKeys(n) ==
    {KeyNone, KeyNullSlice}
        \cup {KeyInt(i) : i \in 0..(n - 1)}
        \cup {KeySlice(a, b) : a \in 0..n, b \in 0..n}
        \cup {KeyList(items) : items \in UniqueSeqsUpTo(0..(n - 1), n)}

-----------------------------------------------------------------------------
(* Index *)

\* Index._extract_iloc(key): the labels at the selected positions
IndexExtractIloc(labels, key) ==
    LET pos == KeyPositions(key, Len(labels))
    IN  [k \in 1..Len(pos) |-> labels[pos[k]]]

\* A label (loc) key: the null slice, a label, an inclusive slice of labels
\* or a list of labels; i / start / stop / items hold labels.
\* Index.loc_to_iloc(key): the equivalent position key.
LocToIloc(labels, key) ==
    LET has(x) == x \in SeqToSet(labels)
    IN  CASE key.kind \in {"None", "null_slice"} -> key
          [] key.kind = "int" ->
                IF has(key.i) THEN KeyInt(PosOf(labels, key.i) - 1) ELSE KeyError
          [] key.kind = "slice" ->
                IF has(key.start) /\ has(key.stop)
                THEN KeySlice(PosOf(labels, key.start) - 1, PosOf(labels, key.stop))
                ELSE KeyError
          [] key.kind = "list" ->
                IF \A k \in 1..Len(key.items) : has(key.items[k])
                THEN KeyList([k \in 1..Len(key.items) |->
                                PosOf(labels, key.items[k]) - 1])
                ELSE KeyError

-----------------------------------------------------------------------------
(* TypeBlocks._extract *)

\* first column position (1-based) of block b
BlockStart(widths, b) == 1 + SumSeq(SubSeq(widths, 1, b - 1))

\* the widths of the blocks left when only the positions in sel are kept
CutWidths(widths, sel) ==
    LET count(b) == Cardinality({p \in sel :
                        /\ p >= BlockStart(widths, b)
                        /\ p < BlockStart(widths, b) + widths[b]})
    IN  SelectSeq([b \in 1..Len(widths) |-> count(b)], LAMBDA w : w > 0)

\* row_key and column_key both integers: the element
TBExtractIsElement(row_key, column_key) ==
    row_key.kind = "int" /\ column_key.kind = "int"

TBExtract(tb, row_key, column_key) ==
    LET rows == KeyPositions(row_key, tb.shape[1])
        sel == KeyPositions(column_key, tb.shape[2])
    IN  TB([k \in 1..Len(sel) |-> [i \in 1..Len(rows) |-> tb.cols[sel[k]][rows[i]]]],
           [k \in 1..Len(sel) |-> tb.dtypes[sel[k]]],
           IF column_key.kind \in {"int", "list"}
           THEN [k \in 1..Len(sel) |-> 1]
           ELSE CutWidths(tb.widths, SeqToSet(sel)),
           <<Len(rows), Len(sel)>>)

\* TypeBlocks.values[0]: the first row across all columns
TBFirstRow(tb) == [k \in 1..Len(tb.cols) |-> tb.cols[k][1]]

-----------------------------------------------------------------------------
(* Frame._extract *)

\* Frame._extract_axis_not_multi
ExtractAxisNotMulti(row_key, column_key) ==
    <<row_key.kind # "None" /\ ~IsKeyMultiple(row_key),
      column_key.kind # "None" /\ ~IsKeyMultiple(column_key)>>

\* which container Frame._extract builds from the extracted blocks:
\* a Series along the row ("row"), along the column ("column"), or a Frame
ExtractCollapse_ShapeOnly(shape, axis_nm) ==
    IF shape[1] = 1 THEN "row"
    ELSE IF shape[2] = 1 THEN "column"
    ELSE "frame"

ExtractCollapse(shape, axis_nm) ==
    IF shape = <<1, 1>>
    THEN IF axis_nm[1] THEN "row" ELSE IF axis_nm[2] THEN "column" ELSE "frame"
    ELSE IF shape[1] = 1
    THEN IF axis_nm[1] THEN "row" ELSE "frame"
    ELSE IF shape[2] = 1
    THEN IF axis_nm[2] THEN "column" ELSE "frame"
    ELSE "frame"

ColumnsArg(cls, labels) ==
    IF ColumnConstructorStatic(cls) THEN ArgIndex(labels) ELSE ArgIndexGO(labels)

\* _extract that builds the Frame without passing the name on
FrameExtract_DropName(f, row_key, column_key) ==
    IF TBExtractIsElement(row_key, column_key)
    THEN ResScalar(Cell(f.blocks, row_key.i + 1, column_key.i + 1))
    ELSE
    LET blocks == TBExtract(f.blocks, row_key, column_key)
        index == IF row_key.kind \in {"None", "null_slice"} THEN f.index
                 ELSE IndexExtractIloc(f.index, row_key)
        whole_columns == column_key.kind \in {"None", "null_slice"}
        columns == IF whole_columns THEN f.columns
                   ELSE IndexExtractIloc(f.columns, column_key)
        own_columns == IF whole_columns THEN ColumnConstructorStatic(f.cls) ELSE TRUE
        axis_nm == ExtractAxisNotMulti(row_key, column_key)
        collapse == ExtractCollapse(blocks.shape, axis_nm)
    IN  CASE collapse = "row" ->
                ResSeries([values |-> TBFirstRow(blocks), index |-> columns,
                           name |-> f.index[row_key.i + 1]])
          [] collapse = "column" ->
                ResSeries([values |-> blocks.cols[1], index |-> index,
                           name |-> f.columns[column_key.i + 1]])
          [] OTHER ->
                FrameInit(f.cls, DataTB(blocks), ArgIndex(index),
                          ColumnsArg(f.cls, columns), 0, TRUE, own_columns)

FrameExtract(f, row_key, column_key) ==
    IF TBExtractIsElement(row_key, column_key)
    THEN ResScalar(Cell(f.blocks, row_key.i + 1, column_key.i + 1))
    ELSE
    LET blocks == TBExtract(f.blocks, row_key, column_key)
        index == IF row_key.kind \in {"None", "null_slice"} THEN f.index
                 ELSE IndexExtractIloc(f.index, row_key)
        whole_columns == column_key.kind \in {"None", "null_slice"}
        columns == IF whole_columns THEN f.columns
                   ELSE IndexExtractIloc(f.columns, column_key)
        own_columns == IF whole_columns THEN ColumnConstructorStatic(f.cls) ELSE TRUE
        axis_nm == ExtractAxisNotMulti(row_key, column_key)
        collapse == ExtractCollapse(blocks.shape, axis_nm)
    IN  CASE collapse = "row" ->
                ResSeries([values |-> TBFirstRow(blocks), index |-> columns,
                           name |-> f.index[row_key.i + 1]])
          [] collapse = "column" ->
                ResSeries([values |-> blocks.cols[1], index |-> index,
                           name |-> f.columns[column_key.i + 1]])
          [] OTHER ->
                FrameInit(f.cls, DataTB(blocks), ArgIndex(index),
                          ColumnsArg(f.cls, columns), f.name, TRUE, own_columns)

\* Frame._extract_iloc / _extract_loc / __getitem__
FrameExtractLoc(f, loc_row_key, loc_column_key) ==
    LET iloc_column_key == LocToIloc(f.columns, loc_column_key)
        iloc_row_key == LocToIloc(f.index, loc_row_key)
    IN  IF iloc_column_key.kind = "KeyError" \/ iloc_row_key.kind = "KeyError"
        THEN ResErr("KeyError")
        ELSE FrameExtract(f, iloc_row_key, iloc_column_key)

FrameGetItem(f, key) ==
    LET iloc_column_key == LocToIloc(f.columns, key)
    IN  IF iloc_column_key.kind = "KeyError" THEN ResErr("KeyError")
        ELSE FrameExtract(f, KeyNone, iloc_column_key)

-----------------------------------------------------------------------------
(* TypeBlocks: dtype resolution, resize, consolidation, compatibility *)

\* the common dtype of two dtypes
DtypeResolve(a, b) ==
    IF a = b THEN a
    ELSE IF {a, b} = {"int", "float"} THEN "float"
    ELSE "object"

RECURSIVE DtypeResolveAll(_)
DtypeResolveAll(dts) ==
    IF Len(dts) = 1 THEN dts[1]
    ELSE DtypeResolve(dts[1], DtypeResolveAll(Tail(dts)))

\* the dtype of a fill value
FillDtype(fill_value) == IF fill_value = NaN THEN "float" ELSE "int"

\* IndexCorrespondence.from_correspondence(src, dst): for each position of
\* dst the matching position of src, or 0 where dst's label is not in src
NoIC == [given |-> FALSE, src |-> <<>>]

IndexCorrespondence(src_labels, dst_labels) ==
    [given |-> TRUE,
     src |-> [k \in 1..Len(dst_labels) |->
                IF dst_labels[k] \in SeqToSet(src_labels)
                THEN PosOf(src_labels, dst_labels[k]) ELSE 0]]

\* TypeBlocks.resize_blocks followed by TypeBlocks.from_blocks
ResizeBlocks(tb, index_ic, columns_ic, fill_value) ==
    LET row_src == IF index_ic.given THEN index_ic.src
                   ELSE [i \in 1..tb.shape[1] |-> i]
        col_src == IF columns_ic.given THEN columns_ic.src
                   ELSE [j \in 1..tb.shape[2] |-> j]
        row_fill == \E i \in 1..Len(row_src) : row_src[i] = 0
    IN  TB([j \in 1..Len(col_src) |-> [i \in 1..Len(row_src) |->
                IF col_src[j] = 0 \/ row_src[i] = 0 THEN fill_value
                ELSE tb.cols[col_src[j]][row_src[i]]]],
           [j \in 1..Len(col_src) |->
                IF col_src[j] = 0 THEN FillDtype(fill_value)
                ELSE IF row_fill
                THEN DtypeResolve(tb.dtypes[col_src[j]], FillDtype(fill_value))
                ELSE tb.dtypes[col_src[j]]],
           IF columns_ic.given THEN [j \in 1..Len(col_src) |-> 1] ELSE tb.widths,
           <<Len(row_src), Len(col_src)>>)

\* the dtype of each block
BlockDtypes(tb) == [b \in 1..Len(tb.widths) |-> tb.dtypes[BlockStart(tb.widths, b)]]

\* widths after merging each run of adjacent blocks of one dtype
RECURSIVE MergeRuns(_, _)
MergeRuns(dts, ws) ==
    IF Len(ws) <= 1 THEN ws
    ELSE IF dts[1] = dts[2]
    THEN MergeRuns(Tail(dts), <<ws[1] + ws[2]>> \o Tail(Tail(ws)))
    ELSE <<ws[1]>> \o MergeRuns(Tail(dts), Tail(ws))

\* TypeBlocks.consolidate
TBConsolidate(tb) == [tb EXCEPT !.widths = MergeRuns(BlockDtypes(tb), tb.widths)]

\* TypeBlocks.block_compatible: the same partitioning into block widths
BlockCompatible(a, b) == a.widths = b.widths

\* TypeBlocks.reblock_compatible: the same widths once consolidated
ReblockCompatible(a, b) == TBConsolidate(a).widths = TBConsolidate(b).widths

\* Frame.values: the 2D array of all columns, by position
FrameValues(f) == f.blocks.cols

-----------------------------------------------------------------------------
(* Frame.reindex *)

\* reindex with the column correspondence taken against the row index
FrameReindex_ColumnsFromIndex(f, index, columns, fill_value) ==
    IF index.kind = "None" /\ columns.kind = "None" THEN ResErr("Exception")
    ELSE IF index.kind # "None" /\ ~IsUnique(index.labels)
    THEN ResErr("ConstructionError")
    ELSE IF /\ columns.kind \in {"Index", "IndexGO"}
            /\ ArgIsStatic(columns) # ColumnConstructorStatic(f.cls)
    THEN ResErr("Exception")
    ELSE IF columns.kind # "None" /\ ~IsUnique(columns.labels)
    THEN ResErr("ConstructionError")
    ELSE
    LET index_ic == IF index.kind # "None"
                    THEN IndexCorrespondence(f.index, index.labels) ELSE NoIC
        new_index == IF index.kind # "None" THEN index.labels ELSE f.index
        columns_ic == IF columns.kind # "None"
                      THEN IndexCorrespondence(f.index, columns.labels) ELSE NoIC
        new_columns == IF columns.kind # "None" THEN columns.labels ELSE f.columns
    IN  FrameInit(f.cls,
                  DataTB(ResizeBlocks(f.blocks, index_ic, columns_ic, fill_value)),
                  ArgIndex(new_index), ColumnsArg(f.cls, new_columns),
                  f.name, FALSE, FALSE)

\* reindex with the row correspondence taken against the columns
FrameReindex_IndexFromColumns(f, index, columns, fill_value) ==
    IF index.kind = "None" /\ columns.kind = "None" THEN ResErr("Exception")
    ELSE IF index.kind # "None" /\ ~IsUnique(index.labels)
    THEN ResErr("ConstructionError")
    ELSE IF /\ columns.kind \in {"Index", "IndexGO"}
            /\ ArgIsStatic(columns) # ColumnConstructorStatic(f.cls)
    THEN ResErr("Exception")
    ELSE IF columns.kind # "None" /\ ~IsUnique(columns.labels)
    THEN ResErr("ConstructionError")
    ELSE
    LET index_ic == IF index.kind # "None"
                    THEN IndexCorrespondence(f.columns, index.labels) ELSE NoIC
        new_index == IF index.kind # "None" THEN index.labels ELSE f.index
        columns_ic == IF columns.kind # "None"
                      THEN IndexCorrespondence(f.columns, columns.labels) ELSE NoIC
        new_columns == IF columns.kind # "None" THEN columns.labels ELSE f.columns
    IN  FrameInit(f.cls,
                  DataTB(ResizeBlocks(f.blocks, index_ic, columns_ic, fill_value)),
                  ArgIndex(new_index), ColumnsArg(f.cls, new_columns),
                  f.name, FALSE, FALSE)

FrameReindex(f, index, columns, fill_value) ==
    IF index.kind = "None" /\ columns.kind = "None" THEN ResErr("Exception")
    ELSE IF index.kind # "None" /\ ~IsUnique(index.labels)
    THEN ResErr("ConstructionError")
    ELSE IF /\ columns.kind \in {"Index", "IndexGO"}
            /\ ArgIsStatic(columns) # ColumnConstructorStatic(f.cls)
    THEN ResErr("Exception")
    ELSE IF columns.kind # "None" /\ ~IsUnique(columns.labels)
    THEN ResErr("ConstructionError")
    ELSE
    LET index_ic == IF index.kind # "None"
                    THEN IndexCorrespondence(f.index, index.labels) ELSE NoIC
        new_index == IF index.kind # "None" THEN index.labels ELSE f.index
        columns_ic == IF columns.kind # "None"
                      THEN IndexCorrespondence(f.columns, columns.labels) ELSE NoIC
        new_columns == IF columns.kind # "None" THEN columns.labels ELSE f.columns
    IN  FrameInit(f.cls,
                  DataTB(ResizeBlocks(f.blocks, index_ic, columns_ic, fill_value)),
                  ArgIndex(new_index), ColumnsArg(f.cls, new_columns),
                  f.name, FALSE, FALSE)

-----------------------------------------------------------------------------
(* Frame.from_concat *)

\* the labels of S in ascending order
RECURSIVE SortedSeq(_)
SortedSeq(S) ==
    IF S = {} THEN <<>>
    ELSE LET m == CHOOSE x \in S : \A y \in S : x <= y
         IN  <<m>> \o SortedSeq(S \ {m})

\* concat_resolved on 1D label arrays
RECURSIVE ConcatSeqs(_)
ConcatSeqs(ss) == IF ss = <<>> THEN <<>> ELSE Head(ss) \o ConcatSeqs(Tail(ss))

\* array_set_ufunc_many: the sorted union or intersection of label arrays
ArraySetUfuncMany(arrays, union) ==
    IF union
    THEN SortedSeq(UNION {SeqToSet(arrays[k]) : k \in 1..Len(arrays)})
    ELSE SortedSeq({x \in SeqToSet(arrays[1]) :
                        \A k \in 1..Len(arrays) : x \in SeqToSet(arrays[k])})

\* len(frame.columns) != len(columns) or (frame.columns != columns).any()
LabelsDiffer_LengthOnly(a, b) == Len(a) # Len(b)

LabelsDiffer(a, b) == a # b

\* the frame as aligned by the blocks() generators of from_concat
AlignColumns(f, columns) ==
    IF LabelsDiffer(f.columns, columns)
    THEN FrameReindex(f, ArgNone, ArgSeq(columns), NaN).frame
    ELSE f

AlignIndex(f, index) ==
    IF LabelsDiffer(f.index, index)
    THEN FrameReindex(f, ArgSeq(index), ArgNone, NaN).frame
    ELSE f

\* rows of several TypeBlocks stacked column by column (concat_resolved of
\* the parts of each block); widths are those of the first
StackRows(tbs, widths) ==
    LET c == tbs[1].shape[2]
    IN  TB([j \in 1..c |-> ConcatSeqs([k \in 1..Len(tbs) |-> tbs[k].cols[j]])],
           [j \in 1..c |-> DtypeResolveAll([k \in 1..Len(tbs) |-> tbs[k].dtypes[j]])],
           widths,
           <<SumSeq([k \in 1..Len(tbs) |-> tbs[k].shape[1]]), c>>)

\* the frames whose values are combined when the aligned frames are neither
\* block compatible nor reblock compatible
ValuesSource(frames, aligned_frames) == frames

\* blocks() of axis 0, through TypeBlocks.from_blocks; an error when the
\* stacked arrays differ in width
ConcatBlocksAxis0(frames, columns) ==
    LET aligned_frames == [k \in 1..Len(frames) |-> AlignColumns(frames[k], columns)]
        n == Len(aligned_frames)
        block_compatible ==
            \A k \in 2..n : BlockCompatible(aligned_frames[k].blocks,
                                            aligned_frames[k - 1].blocks)
        reblock_compatible ==
            \A k \in 2..n : ReblockCompatible(aligned_frames[k].blocks,
                                              aligned_frames[k - 1].blocks)
    IN  IF block_compatible \/ reblock_compatible
        THEN LET type_blocks ==
                    IF ~block_compatible /\ reblock_compatible
                    THEN [k \in 1..n |-> TBConsolidate(aligned_frames[k].blocks)]
                    ELSE [k \in 1..n |-> aligned_frames[k].blocks]
             IN  [ok |-> TRUE, tb |-> StackRows(type_blocks, type_blocks[1].widths)]
        ELSE LET source == ValuesSource(frames, aligned_frames)
                 c == source[1].blocks.shape[2]
             IN  IF \E k \in 1..n : source[k].blocks.shape[2] # c
                 THEN [ok |-> FALSE, tb |-> EmptyTB]
                 ELSE LET stacked == StackRows([k \in 1..n |-> source[k].blocks], <<c>>)
                      IN  [ok |-> TRUE,
                           tb |-> [stacked EXCEPT !.dtypes =
                                    [j \in 1..c |-> DtypeResolveAll(stacked.dtypes)]]]

\* blocks() of axis 1, through TypeBlocks.from_blocks
ConcatBlocksAxis1(frames, index) ==
    LET aligned == [k \in 1..Len(frames) |-> AlignIndex(frames[k], index).blocks]
    IN  TB(ConcatSeqs([k \in 1..Len(aligned) |-> aligned[k].cols]),
           ConcatSeqs([k \in 1..Len(aligned) |-> aligned[k].dtypes]),
           ConcatSeqs([k \in 1..Len(aligned) |-> aligned[k].widths]),
           <<Len(index), SumSeq([k \in 1..Len(aligned) |-> aligned[k].shape[2]])>>)

\* the labels of the concatenated axis are unique
ConcatAxisUnique(labels) == IsUnique(labels)

FrameFromConcat(cls, frames, axis, union, index, columns, consolidate_blocks) ==
    LET n == Len(frames)
        cat_columns == ConcatSeqs([k \in 1..n |-> frames[k].columns])
        cat_index == ConcatSeqs([k \in 1..n |-> frames[k].index])
        set_columns == ArraySetUfuncMany([k \in 1..n |-> frames[k].columns], union)
        set_index == ArraySetUfuncMany([k \in 1..n |-> frames[k].index], union)
        finish(tb, idx, cols) ==
            FrameInit(cls,
                      DataTB(IF consolidate_blocks THEN TBConsolidate(tb) ELSE tb),
                      ArgSeq(idx), ArgSeq(cols), 0, FALSE, FALSE)
    IN  IF axis = 1
        THEN IF columns.kind = "None" /\ ~ConcatAxisUnique(cat_columns)
             THEN ResErr("RuntimeError")
             ELSE LET cols == IF columns.kind = "None" THEN cat_columns
                              ELSE columns.labels
                      idx == IF index.kind = "None" THEN set_index ELSE index.labels
                  IN  finish(ConcatBlocksAxis1(frames, idx), idx, cols)
        ELSE IF index.kind = "None" /\ ~ConcatAxisUnique(cat_index)
             THEN ResErr("RuntimeError")
             ELSE LET idx == IF index.kind = "None" THEN cat_index ELSE index.labels
                      cols == IF columns.kind = "None" THEN set_columns
                              ELSE columns.labels
                      blocks == ConcatBlocksAxis0(frames, cols)
                  IN  IF ~blocks.ok THEN ResErr("ValueError")
                      ELSE finish(blocks.tb, idx, cols)

-----------------------------------------------------------------------------
(* Series; IndexGO and TypeBlocks growth *)

SeriesOf(values, index, name) == [values |-> values, index |-> index, name |-> name]

\* Series.reindex(index, fill_value): values by label, fill_value where the
\* Series lacks the label
SeriesReindex(series, index, fill_value) ==
    SeriesOf([k \in 1..Len(index) |->
                IF index[k] \in SeqToSet(series.index)
                THEN series.values[PosOf(series.index, index[k])]
                ELSE fill_value],
             index, series.name)

\* _requires_reindex(left, right)
RequiresReindex(left, right) == Len(left) # Len(right) \/ left # right

\* the dtype numpy gives a 1D array of the values
ArrayDtype(values) ==
    IF \E i \in 1..Len(values) : values[i] = NaN THEN "float" ELSE "int"

\* TypeBlocks.append(block) of a 1D array: the row count must match
TBAppendOk(tb, values) == Len(values) = tb.shape[1]

TBAppend(tb, values) ==
    TB(Append(tb.cols, values), Append(tb.dtypes, ArrayDtype(values)),
       Append(tb.widths, 1), <<tb.shape[1], tb.shape[2] + 1>>)

\* TypeBlocks.extend(other): the blocks of other are added after the own
TBExtend(tb, other) ==
    TB(tb.cols \o other.cols, tb.dtypes \o other.dtypes, tb.widths \o other.widths,
       <<tb.shape[1], tb.shape[2] + other.shape[2]>>)

\* IndexGO.extend(labels): appends label by label and raises at the first
\* label already present; the labels appended up to there
RECURSIVE IndexGOExtend(_, _)
IndexGOExtend(columns, labels) ==
    IF labels = <<>> THEN [ok |-> TRUE, columns |-> columns]
    ELSE IF Head(labels) \in SeqToSet(columns)
    THEN [ok |-> FALSE, columns |-> columns]
    ELSE IndexGOExtend(Append(columns, Head(labels)), Tail(labels))

-----------------------------------------------------------------------------
(* FrameGO.__setitem__, extend_items, extend *)

\* the value given to __setitem__
ValSeries(series) ==
    [kind |-> "Series", values |-> series.values, index |-> series.index,
     name |-> series.name, element |-> 0]

ValArray(values) ==
    [kind |-> "ndarray", values |-> values, index |-> <<>>, name |-> 0, element |-> 0]

ValGenerator(values) == [ValArray(values) EXCEPT !.kind = "generator"]

ValList(values) == [ValArray(values) EXCEPT !.kind = "list"]

ValElement(element) == [ValArray(<<>>) EXCEPT !.kind = "element", !.element = element]

ResOk == [ResNone EXCEPT !.kind = "ok"]

\* the effect of a call on a FrameGO: the frame after it and its outcome
Effect(f, res) == [frame |-> f, res |-> res]

\* __setitem__ that hands an unindexed value to the blocks without the
\* check of its size
SetItemNew_Unchecked(f, key, value, fill_value) ==
    LET row_count == Len(f.index)
        array == CASE value.kind = "Series" ->
                        SeriesReindex(SeriesOf(value.values, value.index, value.name),
                                      f.index, fill_value).values
                   [] value.kind = "element" -> [i \in 1..row_count |-> value.element]
                   [] OTHER -> value.values
    IN  IF ~TBAppendOk(f.blocks, array)
        THEN Effect(f, ResErr("ShapeError"))
        ELSE Effect([f EXCEPT !.blocks = TBAppend(f.blocks, array),
                              !.columns = Append(f.columns, key)],
                    ResOk)

\* __setitem__ for a key not yet in the columns
SetItemNew(f, key, value, fill_value) ==
    LET row_count == Len(f.index)
        sized == Len(value.values) = row_count
        array == CASE value.kind = "Series" ->
                        SeriesReindex(SeriesOf(value.values, value.index, value.name),
                                      f.index, fill_value).values
                   [] value.kind = "element" -> [i \in 1..row_count |-> value.element]
                   [] OTHER -> value.values
    IN  IF value.kind \in {"ndarray", "list"} /\ ~sized
        THEN Effect(f, ResErr("RuntimeError"))
        ELSE IF ~TBAppendOk(f.blocks, array)
        THEN Effect(f, ResErr("ShapeError"))
        ELSE Effect([f EXCEPT !.blocks = TBAppend(f.blocks, array),
                              !.columns = Append(f.columns, key)],
                    ResOk)

\* a __setitem__ that replaces the values of an existing column
FrameGOSetItem_Overwrite(f, key, value, fill_value) ==
    IF key \in SeqToSet(f.columns)
    THEN LET p == PosOf(f.columns, key)
             added == SetItemNew(f, key, value, fill_value)
         IN  IF added.res.kind = "error" THEN added
             ELSE Effect([f EXCEPT !.blocks.cols[p] =
                            added.frame.blocks.cols[Len(added.frame.blocks.cols)]],
                         ResOk)
    ELSE SetItemNew(f, key, value, fill_value)

FrameGOSetItem(f, key, value, fill_value) ==
    IF key \in SeqToSet(f.columns)
    THEN Effect(f, ResErr("RuntimeError"))
    ELSE SetItemNew(f, key, value, fill_value)

\* extend_items: __setitem__ pair by pair; the first that raises ends the call
RECURSIVE FrameGOExtendItems(_, _, _)
FrameGOExtendItems(f, pairs, fill_value) ==
    IF pairs = <<>> THEN Effect(f, ResOk)
    ELSE LET one == FrameGOSetItem(f, Head(pairs)[1], Head(pairs)[2], fill_value)
         IN  IF one.res.kind = "error" THEN one
             ELSE FrameGOExtendItems(one.frame, Tail(pairs), fill_value)

\* the container given to extend: a Frame or a Series
ContFrame(f) == [kind |-> "Frame", frame |-> f, series |-> NoSeries]

ContSeries(series) == [kind |-> "Series", frame |-> NoFrame, series |-> series]

FrameGOExtend(f, container, fill_value) ==
    LET c_index == IF container.kind = "Frame" THEN container.frame.index
                   ELSE container.series.index
        reindex == RequiresReindex(f.index, c_index)
    IN  IF Len(c_index) = 0 THEN Effect(f, ResOk)
        ELSE IF container.kind = "Frame"
        THEN LET c == IF reindex
                      THEN FrameReindex(container.frame, ArgIndex(f.index), ArgNone,
                                        fill_value).frame
                      ELSE container.frame
                 ext == IndexGOExtend(f.columns, c.columns)
             IN  IF Len(c.columns) = 0 THEN Effect(f, ResOk)
                 ELSE IF ~ext.ok
                 THEN Effect([f EXCEPT !.columns = ext.columns], ResErr("KeyError"))
                 ELSE LET g == [f EXCEPT !.columns = ext.columns,
                                         !.blocks = TBExtend(f.blocks, c.blocks)]
                      IN  IF Len(g.columns) # g.blocks.shape[2]
                          THEN Effect(g, ResErr("RuntimeError"))
                          ELSE Effect(g, ResOk)
        ELSE LET c == IF reindex
                      THEN SeriesReindex(container.series, f.index, fill_value)
                      ELSE container.series
             IN  IF c.name \in SeqToSet(f.columns)
                 THEN Effect(f, ResErr("KeyError"))
                 ELSE IF ~TBAppendOk(f.blocks, c.values)
                 THEN Effect([f EXCEPT !.columns = Append(f.columns, c.name)],
                             ResErr("ShapeError"))
                 ELSE LET g == [f EXCEPT !.columns = Append(f.columns, c.name),
                                         !.blocks = TBAppend(f.blocks, c.values)]
                      IN  IF Len(g.columns) # g.blocks.shape[2]
                          THEN Effect(g, ResErr("RuntimeError"))
                          ELSE Effect(g, ResOk)

-----------------------------------------------------------------------------
(* Specification of selection: iloc, loc and __getitem__ on a Frame *)

RowLabel(i) == 20 + i

ColLabel(j) == 30 + j

\* a label found on neither axis
AbsentLabel == 99

\* a well-formed r x c frame; split gives one block per column
SampleFrame(cls, r, c, split) ==
    [cls |-> cls,
     index |-> [i \in 1..r |-> RowLabel(i)],
     columns |-> [j \in 1..c |-> ColLabel(j)],
     blocks |-> TB(Grid(r, c), [j \in 1..c |-> "int"],
                   IF c = 0 THEN <<>>
                   ELSE IF split THEN [j \in 1..c |-> 1] ELSE <<c>>,
                   <<r, c>>),
     name |-> 5]

LocKeys(labels) ==
    LET S == SeqToSet(labels) \cup {AbsentLabel}
    IN  {KeyNullSlice}
            \cup {KeyInt(x) : x \in S}
            \cup {KeySlice(a, b) : a \in S, b \in S}
            \cup {KeyList(items) : items \in UniqueSeqsUpTo(S, 2)}

ExtractCall(op, row_key, column_key, key_error) ==
    [op |-> op, row_key |-> row_key, column_key |-> column_key,
     key_error |-> key_error]

\* A Frame is immutable and a selection returns a new container, so each
\* behaviour takes one selection from its frame.
InitExtract ==
    /\ frame \in {SampleFrame(cls, r, c, split) :
                    cls \in Classes, r \in 0..MaxAxis, c \in 0..MaxAxis,
                    split \in BOOLEAN}
    /\ result = ResNone
    /\ call = ExtractCall("none", KeyNone, KeyNone, FALSE)
    /\ PoolIdle

ExtractIloc ==
    /\ call.op = "none"
    /\ \E row_key \in IlocKeys(Len(frame.index)),
          column_key \in IlocKeys(Len(frame.columns)) :
        /\ result' = FrameExtract(frame, row_key, column_key)
        /\ call' = ExtractCall("iloc", row_key, column_key, FALSE)
        /\ UNCHANGED <<frame, poolVars>>

ExtractLoc ==
    /\ call.op = "none"
    /\ \E loc_row_key \in LocKeys(frame.index),
          loc_column_key \in LocKeys(frame.columns) \cup {KeyNone} :
        LET rk == LocToIloc(frame.index, loc_row_key)
            ck == LocToIloc(frame.columns, loc_column_key)
        IN  /\ result' = FrameExtractLoc(frame, loc_row_key, loc_column_key)
            /\ call' = ExtractCall("loc", rk, ck,
                                   rk.kind = "KeyError" \/ ck.kind = "KeyError")
            /\ UNCHANGED <<frame, poolVars>>

GetItem ==
    /\ call.op = "none"
    /\ \E key \in LocKeys(frame.columns) :
        LET ck == LocToIloc(frame.columns, key)
        IN  /\ result' = FrameGetItem(frame, key)
            /\ call' = ExtractCall("getitem", KeyNone, ck, ck.kind = "KeyError")
            /\ UNCHANGED <<frame, poolVars>>

NextExtract == ExtractIloc \/ ExtractLoc \/ GetItem

SpecExtract == InitExtract /\ [][NextExtract]_vars

IsExtractCall == call.op \in {"iloc", "loc", "getitem"}

\* C2: the kind of a selection's result follows the kinds of the two keys
\* only: both single gives the scalar; one single gives a Series indexed by
\* the labels selected on the other axis and named by the single label; both
\* multiple gives a Frame, whatever the number of rows and columns selected.
C2_ResultKind ==
    (IsExtractCall /\ ~call.key_error) =>
        LET rk == call.row_key
            ck == call.column_key
            rows == KeyPositions(rk, Len(frame.index))
            cols == KeyPositions(ck, Len(frame.columns))
            row_labels == [k \in 1..Len(rows) |-> frame.index[rows[k]]]
            col_labels == [k \in 1..Len(cols) |-> frame.columns[cols[k]]]
        IN  CASE rk.kind = "int" /\ ck.kind = "int" ->
                    /\ result.kind = "scalar"
                    /\ result.scalar = frame.blocks.cols[cols[1]][rows[1]]
              [] rk.kind = "int" /\ ck.kind # "int" ->
                    /\ result.kind = "series"
                    /\ result.series.index = col_labels
                    /\ result.series.name = frame.index[rows[1]]
                    /\ result.series.values =
                         [k \in 1..Len(cols) |-> frame.blocks.cols[cols[k]][rows[1]]]
              [] rk.kind # "int" /\ ck.kind = "int" ->
                    /\ result.kind = "series"
                    /\ result.series.index = row_labels
                    /\ result.series.name = frame.columns[cols[1]]
                    /\ result.series.values =
                         [k \in 1..Len(rows) |-> frame.blocks.cols[cols[1]][rows[k]]]
              [] OTHER ->
                    /\ result.kind = "frame"
                    /\ result.frame.index = row_labels
                    /\ result.frame.columns = col_labels

\* both keys multiple and a single cell selected: still a Frame
C2_Witness ==
    /\ call.op = "loc"
    /\ call.row_key.kind = "list"
    /\ call.column_key.kind = "slice"
    /\ result.kind = "frame"
    /\ result.frame.blocks.shape = <<1, 1>>

-----------------------------------------------------------------------------
(* Specification of apply and apply_pool on one axis iteration *)

ItemValues == 1..2

PoolItems ==
    UNION {{[i \in 1..n |-> Item(i, vs[i])] : vs \in [1..n -> ItemValues]} :
            n \in 0..MaxItems}

PoolFuncs ==
    {Callable(a, r) : a \in 1..2, r \in {{}, {2}, {EncPair(1, 1)}}}
        \cup {Mapping(ks) : ks \in {{1, 2}, {1}, {EncPair(1, 1), EncPair(2, 1)}}}

InitPool ==
    /\ frame = NoFrame
    /\ result = ResNone
    /\ call = NoCall
    /\ node \in [items : PoolItems, yield_type : {"VALUES", "ITEMS"},
                 func : PoolFuncs]
    /\ pc = "idle"
    /\ executor = "none"
    /\ func_keys = <<>>
    /\ futures = <<>>
    /\ done_order = <<>>
    /\ delivered = <<>>
    /\ pool_result = ResNone

\* apply(func): sequential, in the calling thread
ApplyCall ==
    /\ result.kind = "none"
    /\ result' = Apply(node.yield_type, node.func, node.items)
    /\ UNCHANGED <<frame, call, poolVars>>

\* apply_pool(func): the constructor starts the generator, which enters the
\* with block and calls executor.map
PoolStart ==
    /\ pc = "idle"
    /\ pc' = "map"
    /\ executor' = "open"
    /\ UNCHANGED <<frameVars, node, func_keys, futures, done_order, delivered,
                   pool_result>>

\* executor.map draws the next argument from arg_gen, which records the key,
\* and submits the unit of work
Submit ==
    /\ pc = "map"
    /\ Len(futures) < Len(node.items)
    /\ func_keys' = Append(func_keys, node.items[Len(futures) + 1].k)
    /\ futures' = Append(futures, Pending)
    /\ UNCHANGED <<frameVars, node, pc, executor, done_order, delivered,
                   pool_result>>

\* arg_gen is exhausted: executor.map returns its result iterator to zip
MapReturn ==
    /\ pc = "map"
    /\ Len(futures) = Len(node.items)
    /\ pc' = "zip"
    /\ UNCHANGED <<frameVars, node, executor, func_keys, futures, done_order,
                   delivered, pool_result>>

\* a worker finishes a submitted unit of work, in any order
WorkerRun ==
    \E i \in 1..Len(futures) :
        /\ executor = "open"
        /\ futures[i].kind = "pending"
        /\ futures' = [futures EXCEPT
                        ![i] = WorkerCall(node.yield_type, node.func, node.items[i])]
        /\ done_order' = Append(done_order, i)
        /\ UNCHANGED <<frameVars, node, pc, executor, func_keys, delivered,
                       pool_result>>

\* zip takes the next key and the next result and yields the pair to the
\* constructor; a result that raises leaves the with block (the pool is shut
\* down, units of work not yet started are cancelled) and the call raises
Deliver ==
    LET n == Len(delivered)
        i == NextResult(n, done_order)
    IN  /\ pc = "zip"
        /\ n < Len(func_keys)
        /\ i \in 1..Len(futures)
        /\ futures[i].kind \in {"value", "exc"}
        /\ IF ResultRaises(futures[i])
           THEN /\ pc' = "failed"
                /\ executor' = "shutdown"
                /\ futures' = [j \in 1..Len(futures) |->
                                IF futures[j].kind = "pending" THEN Cancelled
                                ELSE futures[j]]
                /\ pool_result' = ResErr(futures[i].exc)
                /\ UNCHANGED delivered
           ELSE /\ delivered' = Append(delivered, <<func_keys[n + 1], futures[i].value>>)
                /\ UNCHANGED <<pc, executor, futures, pool_result>>
        /\ UNCHANGED <<frameVars, node, func_keys, done_order>>

\* the keys are exhausted: the with block is left, the generator ends and the
\* constructor returns the container
PoolFinish ==
    /\ pc = "zip"
    /\ Len(delivered) = Len(func_keys)
    /\ pc' = "done"
    /\ executor' = "shutdown"
    /\ pool_result' = Constructed(delivered)
    /\ UNCHANGED <<frameVars, node, func_keys, futures, done_order, delivered>>

NextPool ==
    ApplyCall \/ PoolStart \/ Submit \/ MapReturn \/ WorkerRun \/ Deliver \/ PoolFinish

SpecPool == InitPool /\ [][NextPool]_vars

\* C3: apply(f) and apply_pool(f) give the same result: the same container
\* of key-ordered pairs, or a failure on the same inputs.
C3_PoolEqualsApply ==
    (pc \in {"done", "failed"} /\ result.kind # "none") => pool_result = result

\* C4: whatever the order in which the workers finish, the i-th pair yielded
\* to the constructor is (k_i, f(arg_i)) for the i-th item of the iteration.
C4_PairedByPosition ==
    \A i \in 1..Len(delivered) :
        delivered[i] = <<node.items[i].k,
                         WorkerCall(node.yield_type, node.func, node.items[i]).value>>

\* the second unit of work finished first, and both pairs were yielded
C4_Witness ==
    /\ Len(done_order) = 2
    /\ done_order[1] = 2
    /\ Len(delivered) = 2
    /\ delivered[1][2] # delivered[2][2]

PoolSomeRaises ==
    \E i \in 1..Len(node.items) :
        WorkerCall(node.yield_type, node.func, node.items[i]).kind = "exc"

\* C5: when f raises for any item, apply_pool returns no container: the call
\* ends in one error.
C5_NoPartialResult ==
    PoolSomeRaises =>
        /\ pool_result.kind \in {"none", "error"}
        /\ pc # "done"
        /\ pc = "failed" => pool_result.kind = "error"

\* the second item raised after the first pair had been yielded
C5_Witness ==
    /\ pc = "failed"
    /\ Len(delivered) = 1
    /\ futures[2].kind = "exc"
    /\ pool_result.kind = "error"

-----------------------------------------------------------------------------
(* Specification of Frame.from_concat on two source frames *)

\* a source frame: its values are Grid, by position; a block holds columns
\* of one dtype
SourceFrame(idx, cols, dts, split) ==
    [cls |-> "Frame", index |-> idx, columns |-> cols,
     blocks |-> TB(Grid(Len(idx), Len(cols)), dts,
                   IF split \/ \E j \in 1..Len(dts) : dts[j] # dts[1]
                   THEN [j \in 1..Len(cols) |-> 1] ELSE <<Len(cols)>>,
                   <<Len(idx), Len(cols)>>),
     name |-> 0]

SourceIndexes == {<<21>>, <<21, 22>>, <<22, 21>>, <<21, 23>>}

SourceColumns ==
    {<<<<31>>, <<"int">>>>,
     <<<<31, 32>>, <<"int", "int">>>>,
     <<<<31, 32>>, <<"int", "str">>>>,
     <<<<32, 31>>, <<"str", "int">>>>,
     <<<<32, 31>>, <<"int", "int">>>>,
     <<<<31, 33>>, <<"int", "int">>>>}

SourceFrames ==
    {SourceFrame(idx, cd[1], cd[2], split) :
        idx \in SourceIndexes, cd \in SourceColumns, split \in BOOLEAN}

ConcatCall(op, frames, axis, union, index, columns) ==
    [op |-> op, frames |-> frames, axis |-> axis, union |-> union,
     index |-> index, columns |-> columns]

InitConcat ==
    /\ frame = NoFrame
    /\ result = ResNone
    /\ call = ConcatCall("none", <<>>, 0, TRUE, ArgNone, ArgNone)
    /\ PoolIdle

\* the replacement labels a caller supplies for the concatenated axis
Replacement(n) == ArgSeq(RangeLabels(n))

FromConcat ==
    /\ call.op = "none"
    /\ \E a \in SourceFrames, b \in SourceFrames, axis \in {0, 1},
          union \in BOOLEAN, replace \in BOOLEAN, consolidate_blocks \in BOOLEAN,
          cls \in Classes :
        LET frames == <<a, b>>
            index == IF axis = 0 /\ replace
                     THEN Replacement(Len(a.index) + Len(b.index)) ELSE ArgNone
            columns == IF axis = 1 /\ replace
                       THEN Replacement(Len(a.columns) + Len(b.columns)) ELSE ArgNone
        IN  /\ result' = FrameFromConcat(cls, frames, axis, union, index, columns,
                                         consolidate_blocks)
            /\ call' = ConcatCall("from_concat", frames, axis, union, index, columns)
            /\ UNCHANGED <<frame, poolVars>>

NextConcat == FromConcat

SpecConcat == InitConcat /\ [][NextConcat]_vars

\* the labels of the sources on an axis, concatenated by position
CallIndexLabels == ConcatSeqs([k \in 1..Len(call.frames) |-> call.frames[k].index])

CallColumnLabels == ConcatSeqs([k \in 1..Len(call.frames) |-> call.frames[k].columns])

\* C6: from_concat raises RuntimeError when the concatenated axis has a
\* duplicate label and no replacement is given; with a replacement of n unique
\* labels (n the total number of rows, axis 0) it returns a Frame of n rows.
C6_ConcatUniqueness ==
    call.op = "from_concat" =>
        /\ (call.axis = 0 /\ call.index.kind = "None" /\ ~IsUnique(CallIndexLabels))
                => result = ResErr("RuntimeError")
        /\ (call.axis = 1 /\ call.columns.kind = "None"
                /\ ~IsUnique(CallColumnLabels))
                => result = ResErr("RuntimeError")
        /\ (call.axis = 0 /\ call.index.kind # "None")
                => /\ result.kind = "frame"
                   /\ Len(result.frame.index) = Len(CallIndexLabels)
                   /\ result.frame.blocks.shape[1] = Len(CallIndexLabels)

\* rows of the result that come before the rows of source k
RowOffset(k) == SumSeq([m \in 1..(k - 1) |-> Len(call.frames[m].index)])

ColOffset(k) == SumSeq([m \in 1..(k - 1) |-> Len(call.frames[m].columns)])

\* C7: from_concat(axis=0) aligns every source by column label: the result
\* cell of a source row and a result column is the source's cell under that
\* column label, or NaN when the source lacks the column.
C7_RowsAlignedByColumn ==
    (call.op = "from_concat" /\ call.axis = 0 /\ result.kind = "frame") =>
        \A k \in 1..Len(call.frames) :
            LET src == call.frames[k]
            IN  \A r \in 1..Len(src.index), c \in 1..Len(result.frame.columns) :
                    LET label == result.frame.columns[c]
                    IN  Cell(result.frame.blocks, RowOffset(k) + r, c) =
                            IF label \in SeqToSet(src.columns)
                            THEN Cell(src.blocks, r, PosOf(src.columns, label))
                            ELSE NaN

-----------------------------------------------------------------------------
(* Specification of in-place growth of a FrameGO *)

GoKeys == {31, 32, 33}

GoSeries ==
    {SeriesOf(<<71, 72>>, <<21, 22>>, 32), SeriesOf(<<72, 71>>, <<22, 21>>, 33),
     SeriesOf(<<73, 71>>, <<23, 21>>, 31), SeriesOf(<<>>, <<>>, 33)}

GoArrays == {[i \in 1..n |-> 50 + i] : n \in 0..(MaxAxis + 1)}

GoValues ==
    {ValSeries(x) : x \in GoSeries}
        \cup {ValArray(a) : a \in GoArrays}
        \cup {ValGenerator(a) : a \in GoArrays}
        \cup {ValList(a) : a \in GoArrays}
        \cup {ValElement(7)}

GoPairValues ==
    {ValSeries(SeriesOf(<<72, 71>>, <<22, 21>>, 33)), ValElement(7),
     ValList(<<51, 52>>), ValList(<<51>>)}

GoPairs ==
    {<<>>} \cup {<<<<k, v>>>> : k \in GoKeys, v \in GoPairValues}
        \cup {<<<<k1, v>>, <<k2, ValElement(7)>>>> :
                k1 \in GoKeys, k2 \in GoKeys, v \in GoPairValues}

GoContainers ==
    {ContFrame(SourceFrame(idx, cols, [j \in 1..Len(cols) |-> "int"], split)) :
        idx \in {<<>>, <<21>>, <<21, 22>>, <<22, 21>>},
        cols \in {<<>>, <<32>>, <<32, 33>>, <<33, 31>>},
        split \in BOOLEAN}
        \cup {ContSeries(x) : x \in GoSeries}

GoCall(op, given, all_ok) == [op |-> op, given |-> given, all_ok |-> all_ok]

GoOps == {"setitem", "extend_items", "extend"}

InitGO ==
    /\ frame \in {SampleFrame("FrameGO", r, c, FALSE) : r \in 0..MaxAxis, c \in 0..1}
    /\ result = ResNone
    /\ call = GoCall("none", <<>>, TRUE)
    /\ PoolIdle

GoStep(op, given, eff) ==
    /\ Len(frame.columns) + Len(given) <= MaxGoCols
    /\ frame' = eff.frame
    /\ result' = eff.res
    /\ call' = GoCall(op, given, call.all_ok /\ eff.res.kind = "ok")
    /\ UNCHANGED poolVars

SetItem ==
    \E key \in GoKeys, value \in GoValues :
        GoStep("setitem", <<key>>, FrameGOSetItem(frame, key, value, NaN))

ExtendItems ==
    \E pairs \in GoPairs :
        GoStep("extend_items", [k \in 1..Len(pairs) |-> pairs[k][1]],
               FrameGOExtendItems(frame, pairs, NaN))

Extend ==
    \E container \in GoContainers :
        GoStep("extend",
               IF container.kind = "Frame" THEN container.frame.columns
               ELSE <<container.series.name>>,
               FrameGOExtend(frame, container, NaN))

NextGO == SetItem \/ ExtendItems \/ Extend

SpecGO == InitGO /\ [][NextGO]_vars

\* C9: in a sequence of successful __setitem__, extend_items and extend
\* calls, each call leaves the row index, and the label, position and values
\* of every existing column, as they were; the columns it adds come after
\* them, in the order they were given.
C9_GrowOnly ==
    [][(call'.op \in GoOps /\ call'.all_ok) =>
        LET n == Len(frame.columns)
        IN  /\ frame'.index = frame.index
            /\ Len(frame'.columns) >= n
            /\ Len(frame'.blocks.cols) = Len(frame'.columns)
            /\ \A p \in 1..n :
                /\ frame'.columns[p] = frame.columns[p]
                /\ frame'.blocks.cols[p] = frame.blocks.cols[p]
            /\ SubSeq(frame'.columns, n + 1, Len(frame'.columns)) \in {<<>>, call'.given}
       ]_vars

\* a FrameGO grown to three columns by successful calls, the last an extend
\* that added two columns
C9_Witness ==
    /\ call.op = "extend"
    /\ call.all_ok
    /\ Len(call.given) = 2
    /\ Len(frame.columns) = 3
    /\ SubSeq(frame.columns, 2, 3) = call.given

-----------------------------------------------------------------------------
(* Frame.assign: _reindex_other_like_iloc and FrameAssign.__call__ *)

\* the labelled value given to the assignment
OtherSeries(series) == [kind |-> "Series", series |-> series, frame |-> NoFrame]

OtherFrame(f) == [kind |-> "Frame", series |-> NoSeries, frame |-> f]

\* the array handed to the blocks: the .values of the reindexed container,
\* or the error raised on the way
Array1D(vec) == [exc |-> "", dim |-> 1, vec |-> vec, cols |-> <<>>]

Array2D(cols) == [exc |-> "", dim |-> 2, vec |-> <<>>, cols |-> cols]

ArrayErr(e) == [exc |-> e, dim |-> 0, vec |-> <<>>, cols |-> <<>>]

\* the value taken as it stands, cell by position, padded with fill_value
ReindexOtherLikeIloc_Positional(f, value, row_key, column_key, fill_value) ==
    LET nm == ExtractAxisNotMulti(row_key, column_key)
        rows == IndexExtractIloc(f.index, row_key)
        cols == IndexExtractIloc(f.columns, column_key)
        at(vec, k) == IF k <= Len(vec) THEN vec[k] ELSE fill_value
    IN  IF nm[1] /\ ~nm[2] /\ value.kind = "Series"
        THEN Array1D([k \in 1..Len(cols) |-> at(value.series.values, k)])
        ELSE IF ~nm[1] /\ nm[2] /\ value.kind = "Series"
        THEN Array1D([k \in 1..Len(rows) |-> at(value.series.values, k)])
        ELSE IF ~nm[1] /\ ~nm[2] /\ value.kind = "Frame"
        THEN Array2D([j \in 1..Len(cols) |-> [i \in 1..Len(rows) |->
                IF j <= Len(value.frame.columns) /\ i <= Len(value.frame.index)
                THEN Cell(value.frame.blocks, i, j) ELSE fill_value]])
        ELSE ArrayErr("Exception")

ReindexOtherLikeIloc(f, value, row_key, column_key, fill_value) ==
    LET nm == ExtractAxisNotMulti(row_key, column_key)
    IN  IF nm[1] /\ ~nm[2] /\ value.kind = "Series"
        THEN Array1D(SeriesReindex(value.series,
                                   IndexExtractIloc(f.columns, column_key),
                                   fill_value).values)
        ELSE IF ~nm[1] /\ nm[2] /\ value.kind = "Series"
        THEN Array1D(SeriesReindex(value.series,
                                   IndexExtractIloc(f.index, row_key),
                                   fill_value).values)
        ELSE IF ~nm[1] /\ ~nm[2] /\ value.kind = "Frame"
        THEN LET target_column_index == IndexExtractIloc(f.columns, column_key)
                 target_row_index == IndexExtractIloc(f.index, row_key)
                 v == FrameReindex(value.frame, ArgIndex(target_row_index),
                                   ColumnsArg(f.cls, target_column_index),
                                   fill_value)
             IN  IF v.kind = "error" THEN ArrayErr(v.exc)
                 ELSE Array2D(FrameValues(v.frame))
        ELSE ArrayErr("Exception")

\* extract_iloc_assign that rebuilds the selected columns whole, clearing
\* their cells outside the selected rows
TBExtractIlocAssign_WholeColumns(tb, row_key, column_key, value) ==
    LET rows == KeyPositions(row_key, tb.shape[1])
        sel == KeyPositions(column_key, tb.shape[2])
        new(ri, cj) == IF value.dim = 2 THEN value.cols[cj][ri]
                       ELSE IF column_key.kind = "int" THEN value.vec[ri]
                       ELSE value.vec[cj]
        column(j) == [i \in 1..tb.shape[1] |->
                        IF j \in SeqToSet(sel)
                        THEN IF i \in SeqToSet(rows)
                             THEN new(PosOf(rows, i), PosOf(sel, j))
                             ELSE 0
                        ELSE tb.cols[j][i]]
    IN  TB([j \in 1..tb.shape[2] |-> column(j)], tb.dtypes,
           [j \in 1..tb.shape[2] |-> 1], tb.shape)

\* TypeBlocks.extract_iloc_assign(key, value): the selected cells take the
\* array's values by position within the selection; a 1D array runs along
\* the axis that has the multiple selection.  Every column is returned as a
\* block of its own.
TBExtractIlocAssign(tb, row_key, column_key, value) ==
    LET rows == KeyPositions(row_key, tb.shape[1])
        sel == KeyPositions(column_key, tb.shape[2])
        new(ri, cj) == IF value.dim = 2 THEN value.cols[cj][ri]
                       ELSE IF column_key.kind = "int" THEN value.vec[ri]
                       ELSE value.vec[cj]
        column(j) == [i \in 1..tb.shape[1] |->
                        IF j \in SeqToSet(sel) /\ i \in SeqToSet(rows)
                        THEN new(PosOf(rows, i), PosOf(sel, j))
                        ELSE tb.cols[j][i]]
    IN  TB([j \in 1..tb.shape[2] |-> column(j)],
           [j \in 1..tb.shape[2] |->
                IF j \in SeqToSet(sel) /\ rows # <<>>
                THEN DtypeResolve(tb.dtypes[j], ArrayDtype(column(j)))
                ELSE tb.dtypes[j]],
           [j \in 1..tb.shape[2] |-> 1],
           tb.shape)

\* FrameAssign(container, iloc_key)(value, fill_value)
FrameAssignCall(f, row_key, column_key, value, fill_value) ==
    LET v == ReindexOtherLikeIloc(f, value, row_key, column_key, fill_value)
    IN  IF v.exc # "" THEN ResErr(v.exc)
        ELSE FrameInit(f.cls,
                       DataTB(TBExtractIlocAssign(f.blocks, row_key, column_key, v)),
                       ArgIndex(f.index), ColumnsArg(f.cls, f.columns),
                       f.name, FALSE, FALSE)

\* Frame._extract_loc_assign
FrameAssignLoc(f, loc_row_key, loc_column_key, value, fill_value) ==
    LET iloc_column_key == LocToIloc(f.columns, loc_column_key)
        iloc_row_key == LocToIloc(f.index, loc_row_key)
    IN  IF iloc_column_key.kind = "KeyError" \/ iloc_row_key.kind = "KeyError"
        THEN ResErr("KeyError")
        ELSE FrameAssignCall(f, iloc_row_key, iloc_column_key, value, fill_value)

\* Frame._extract_getitem_assign
FrameAssignGetItem(f, key, value, fill_value) ==
    LET iloc_column_key == LocToIloc(f.columns, key)
    IN  IF iloc_column_key.kind = "KeyError" THEN ResErr("KeyError")
        ELSE FrameAssignCall(f, KeyNone, iloc_column_key, value, fill_value)

-----------------------------------------------------------------------------
(* Specification of assignment from a labelled value *)

\* a Series whose k-th value is 70 + k
AssignSeries(index) == SeriesOf([k \in 1..Len(index) |-> 70 + k], index, 0)

\* a Frame whose value at row i, column j is 100 + 10 * i + j
AssignSource(cls, idx, cols) ==
    [cls |-> cls, index |-> idx, columns |-> cols,
     blocks |-> TB([j \in 1..Len(cols) |-> [i \in 1..Len(idx) |-> 100 + 10 * i + j]],
                   [j \in 1..Len(cols) |-> "int"],
                   <<Len(cols)>>, <<Len(idx), Len(cols)>>),
     name |-> 0]

AssignValues ==
    {OtherSeries(AssignSeries(index)) :
        index \in {<<>>, <<21, 22>>, <<22, 21>>, <<22>>, <<AbsentLabel, 21>>,
                   <<31, 32>>, <<32, 31>>, <<32>>, <<AbsentLabel, 31>>}}
        \cup {OtherFrame(AssignSource(cls, idx, cols)) :
                cls \in Classes,
                idx \in {<<21, 22>>, <<22, 21>>, <<AbsentLabel, 22>>},
                cols \in {<<31, 32>>, <<32, 31>>, <<AbsentLabel, 32>>}}

FillValues == {NaN, 0}

AssignCall(op, row_key, column_key, value, fill_value) ==
    [op |-> op, row_key |-> row_key, column_key |-> column_key,
     value |-> value, fill_value |-> fill_value]

\* assignment returns a new Frame and leaves the target as it is, so each
\* behaviour takes one assignment to its frame
InitAssign ==
    /\ frame \in {SampleFrame(cls, r, c, split) :
                    cls \in Classes, r \in 1..MaxAxis, c \in 1..MaxAxis,
                    split \in BOOLEAN}
    /\ result = ResNone
    /\ call = AssignCall("none", KeyNone, KeyNone, OtherSeries(NoSeries), NaN)
    /\ PoolIdle

AssignIloc ==
    /\ call.op = "none"
    /\ \E row_key \in IlocKeys(Len(frame.index)) \ {KeyNone},
          column_key \in IlocKeys(Len(frame.columns)),
          value \in AssignValues, fill_value \in FillValues :
        /\ result' = FrameAssignCall(frame, row_key, column_key, value, fill_value)
        /\ call' = AssignCall("assign.iloc", row_key, column_key, value, fill_value)
        /\ UNCHANGED <<frame, poolVars>>

AssignLoc ==
    /\ call.op = "none"
    /\ \E loc_row_key \in LocKeys(frame.index),
          loc_column_key \in LocKeys(frame.columns) \cup {KeyNone},
          value \in AssignValues, fill_value \in FillValues :
        /\ result' = FrameAssignLoc(frame, loc_row_key, loc_column_key,
                                    value, fill_value)
        /\ call' = AssignCall("assign.loc", LocToIloc(frame.index, loc_row_key),
                              LocToIloc(frame.columns, loc_column_key),
                              value, fill_value)
        /\ UNCHANGED <<frame, poolVars>>

AssignGetItem ==
    /\ call.op = "none"
    /\ \E key \in LocKeys(frame.columns),
          value \in AssignValues, fill_value \in FillValues :
        /\ result' = FrameAssignGetItem(frame, key, value, fill_value)
        /\ call' = AssignCall("assign.getitem", KeyNone,
                              LocToIloc(frame.columns, key), value, fill_value)
        /\ UNCHANGED <<frame, poolVars>>

NextAssign == AssignIloc \/ AssignLoc \/ AssignGetItem

SpecAssign == InitAssign /\ [][NextAssign]_vars

IsAssignCall == call.op \in {"assign.iloc", "assign.loc", "assign.getitem"}

\* the value the labelled source holds for the target cell with row label
\* tr and column label tc, or fill_value where the source lacks the label
SourceAt(value, by_column, tr, tc, fill_value) ==
    IF value.kind = "Series"
    THEN LET t == IF by_column THEN tc ELSE tr
         IN  IF t \in SeqToSet(value.series.index)
             THEN value.series.values[PosOf(value.series.index, t)]
             ELSE fill_value
    ELSE IF tr \in SeqToSet(value.frame.index) /\ tc \in SeqToSet(value.frame.columns)
    THEN Cell(value.frame.blocks, PosOf(value.frame.index, tr),
              PosOf(value.frame.columns, tc))
    ELSE fill_value

\* C10: the Frame an assignment of a Series or Frame returns holds, in each
\* selected cell, the source's value at the cell's label (the column label
\* for a Series over one row, the row label for a Series over one column,
\* both for a Frame), or fill_value where the source lacks the label.
C10_AssignAlignsByLabel ==
    (IsAssignCall /\ result.kind = "frame") =>
        LET rows == KeyPositions(call.row_key, Len(frame.index))
            sel == KeyPositions(call.column_key, Len(frame.columns))
        IN  \A i \in SeqToSet(rows), j \in SeqToSet(sel) :
                Cell(result.frame.blocks, i, j) =
                    SourceAt(call.value, call.row_key.kind = "int",
                             frame.index[i], frame.columns[j], call.fill_value)

\* a Frame source with its labels in another order than the target's and
\* one label missing, assigned over two rows and two columns
C10_Witness ==
    /\ IsAssignCall
    /\ result.kind = "frame"
    /\ call.value.kind = "Frame"
    /\ call.value.frame.index = <<AbsentLabel, 22>>
    /\ call.value.frame.columns = <<32, 31>>
    /\ call.fill_value = 0
    /\ Len(KeyPositions(call.row_key, Len(frame.index))) = 2
    /\ Len(KeyPositions(call.column_key, Len(frame.columns))) = 2
    /\ Cell(result.frame.blocks, 2, 1) = 122
    /\ Cell(result.frame.blocks, 1, 1) = 0

-----------------------------------------------------------------------------
(* Specification of Frame.reindex *)

\* the label sequences given for an axis whose own labels are own and whose
\* labels are drawn from base: orderings and selections of two known labels
\* and an absent one, the own labels, and a sequence with a duplicate
ReindexLabels(own, base) ==
    UniqueSeqsUpTo({base + 1, base + 2, AbsentLabel}, 2)
        \cup {own, <<base + 1, base + 1>>}

ReindexArgs(own, base) ==
    {ArgNone}
        \cup {ArgSeq(s) : s \in ReindexLabels(own, base)}
        \cup {ArgIndex(s) : s \in ReindexLabels(own, base)}
        \cup {ArgIndexGO(s) : s \in ReindexLabels(own, base)}

ReindexCall(op, index, columns, fill_value) ==
    [op |-> op, index |-> index, columns |-> columns, fill_value |-> fill_value]

\* reindex returns a new Frame and leaves the receiver as it is, so each
\* behaviour takes one reindex of its frame
InitReindex ==
    /\ frame \in {SampleFrame(cls, r, c, split) :
                    cls \in Classes, r \in 0..MaxAxis, c \in 0..MaxAxis,
                    split \in BOOLEAN}
    /\ result = ResNone
    /\ call = ReindexCall("none", ArgNone, ArgNone, NaN)
    /\ PoolIdle

Reindex ==
    /\ call.op = "none"
    /\ \E index \in ReindexArgs(frame.index, 20),
          columns \in ReindexArgs(frame.columns, 30),
          fill_value \in FillValues :
        /\ result' = FrameReindex(frame, index, columns, fill_value)
        /\ call' = ReindexCall("reindex", index, columns, fill_value)
        /\ UNCHANGED <<frame, poolVars>>

NextReindex == Reindex

SpecReindex == InitReindex /\ [][NextReindex]_vars

\* the arguments reindex accepts: an axis given, labels unique, and a columns
\* Index of the static status of the frame's columns
ReindexAccepts ==
    /\ call.index.kind # "None" \/ call.columns.kind # "None"
    /\ IsUnique(call.index.labels)
    /\ IsUnique(call.columns.labels)
    /\ call.columns.kind \in {"Index", "IndexGO"} =>
            ArgIsStatic(call.columns) = ColumnConstructorStatic(frame.cls)

\* C11: reindex returns a Frame with the given row and column labels in the
\* given order (the frame's own labels for an axis not given); a cell whose
\* row and column labels are both labels of the frame holds the frame's
\* value there, every other cell holds fill_value.
C11_ReindexByLabel ==
    (call.op = "reindex" /\ ReindexAccepts) =>
        /\ result.kind = "frame"
        /\ result.frame.index =
                IF call.index.kind = "None" THEN frame.index ELSE call.index.labels
        /\ result.frame.columns =
                IF call.columns.kind = "None" THEN frame.columns
                ELSE call.columns.labels
        /\ Len(result.frame.blocks.cols) = Len(result.frame.columns)
        /\ \A j \in 1..Len(result.frame.columns) :
            /\ Len(result.frame.blocks.cols[j]) = Len(result.frame.index)
            /\ \A i \in 1..Len(result.frame.index) :
                LET r == result.frame.index[i]
                    c == result.frame.columns[j]
                IN  Cell(result.frame.blocks, i, j) =
                        IF r \in SeqToSet(frame.index) /\ c \in SeqToSet(frame.columns)
                        THEN Cell(frame.blocks, PosOf(frame.index, r),
                                  PosOf(frame.columns, c))
                        ELSE call.fill_value

\* a 2 x 2 frame reindexed onto reordered columns and a row index with an
\* absent label: a copied cell and a filled cell
C11_Witness ==
    /\ call.op = "reindex"
    /\ result.kind = "frame"
    /\ frame.index = <<21, 22>>
    /\ frame.columns = <<31, 32>>
    /\ call.index.labels = <<22, AbsentLabel>>
    /\ call.columns.labels = <<32, 31>>
    /\ call.fill_value = 0
    /\ Cell(result.frame.blocks, 1, 2) = Cell(frame.blocks, 2, 1)
    /\ Cell(result.frame.blocks, 2, 1) = 0

\* the call F.reindex(index=F.index, columns=F.columns)
IsReindexIdentity ==
    /\ call.op = "reindex"
    /\ call.index = ArgIndex(frame.index)
    /\ call.columns = ColumnsArg(frame.cls, frame.columns)

\* C12: F.reindex(index=F.index, columns=F.columns) returns a Frame with the
\* row labels, column labels and cell values of F.
C12_ReindexIdentity ==
    IsReindexIdentity =>
        /\ result.kind = "frame"
        /\ result.frame.index = frame.index
        /\ result.frame.columns = frame.columns
        /\ result.frame.blocks.cols = frame.blocks.cols

\* the identity reindex of a 2 x 2 frame, with 0 as fill value
C12_Witness ==
    /\ IsReindexIdentity
    /\ result.kind = "frame"
    /\ Len(frame.index) = 2
    /\ Len(frame.columns) = 2
    /\ call.fill_value = 0
    /\ Cell(result.frame.blocks, 2, 2) = 22

-----------------------------------------------------------------------------
(* Selection of the whole frame *)

\* a selection with the null key (None or the null slice) on both axes
IsNullSelection ==
    /\ IsExtractCall
    /\ ~call.key_error
    /\ call.row_key.kind \in {"None", "null_slice"}
    /\ call.column_key.kind \in {"None", "null_slice"}

\* C13: a selection with the null key on both axes returns a Frame with the
\* class, row labels, column labels, name and cell values of the frame.
C13_NullSelectionRoundTrip ==
    IsNullSelection =>
        /\ result.kind = "frame"
        /\ result.frame.cls = frame.cls
        /\ result.frame.index = frame.index
        /\ result.frame.columns = frame.columns
        /\ result.frame.name = frame.name
        /\ result.frame.blocks.cols = frame.blocks.cols

\* iloc[:, :] on a frame of one row and two columns
C13_Witness ==
    /\ IsNullSelection
    /\ call.op = "iloc"
    /\ call.row_key.kind = "null_slice"
    /\ call.column_key.kind = "null_slice"
    /\ frame.blocks.shape = <<1, 2>>
    /\ result.kind = "frame"
    /\ result.frame.blocks.cols = <<<<11>>, <<12>>>>

-----------------------------------------------------------------------------
(* Frame._ufunc_binary_operator with a Frame operand *)

\* Index.union(other): a new Index of the receiver's variant holding the
\* labels of both in sorted order
IndexUnion(a, b) == SortedSeq(SeqToSet(a) \cup SeqToSet(b))

\* the operator on two elements; NaN in either operand gives NaN
Operators == {"add", "sub"}

ApplyOperator(operator, x, y) ==
    IF x = NaN \/ y = NaN THEN NaN
    ELSE IF operator = "add" THEN x + y
    ELSE x - y

\* TypeBlocks._ufunc_binary_operator(operator, other): the operator applied
\* element by element to two block stores of one shape
TBUfuncBinaryOperator(operator, tb, other) ==
    LET column(j) == [i \in 1..tb.shape[1] |->
                        ApplyOperator(operator, tb.cols[j][i], other.cols[j][i])]
    IN  TB([j \in 1..tb.shape[2] |-> column(j)],
           [j \in 1..tb.shape[2] |-> ArrayDtype(column(j))],
           [j \in 1..tb.shape[2] |-> 1],
           tb.shape)

\* the operator applied with the operands exchanged
FrameUfuncBinaryOperator_Swapped(f, operator, other) ==
    LET columns == ColumnsArg(f.cls, IndexUnion(f.columns, other.columns))
        index == ArgIndex(IndexUnion(f.index, other.index))
        self_r == FrameReindex(f, index, columns, NaN)
        other_r == FrameReindex(other, index, columns, NaN)
    IN  IF self_r.kind = "error" THEN self_r
        ELSE IF other_r.kind = "error" THEN other_r
        ELSE FrameInit(f.cls,
                       DataTB(TBUfuncBinaryOperator(operator, other_r.frame.blocks,
                                                    self_r.frame.blocks)),
                       index, columns, 0, FALSE, FALSE)

FrameUfuncBinaryOperator(f, operator, other) ==
    LET columns == ColumnsArg(f.cls, IndexUnion(f.columns, other.columns))
        index == ArgIndex(IndexUnion(f.index, other.index))
        self_r == FrameReindex(f, index, columns, NaN)
        other_r == FrameReindex(other, index, columns, NaN)
    IN  IF self_r.kind = "error" THEN self_r
        ELSE IF other_r.kind = "error" THEN other_r
        ELSE FrameInit(f.cls,
                       DataTB(TBUfuncBinaryOperator(operator, self_r.frame.blocks,
                                                    other_r.frame.blocks)),
                       index, columns, 0, FALSE, FALSE)

-----------------------------------------------------------------------------
(* Specification of binary operators on two Frames *)

OperandFrames ==
    {AssignSource(cls, idx, cols) :
        cls \in Classes,
        idx \in {<<21, 22>>, <<22, 21>>, <<AbsentLabel, 22>>, <<23>>},
        cols \in {<<31, 32>>, <<32, 31>>, <<AbsentLabel, 32>>, <<33>>}}

OperatorCall(op, operator, other) ==
    [op |-> op, operator |-> operator, other |-> other]

\* an operator returns a new Frame and leaves both operands as they are, so
\* each behaviour applies one operator to its frame
InitOperator ==
    /\ frame \in {SampleFrame(cls, r, c, split) :
                    cls \in Classes, r \in 1..MaxAxis, c \in 1..MaxAxis,
                    split \in BOOLEAN}
    /\ result = ResNone
    /\ call = OperatorCall("none", "add", NoFrame)
    /\ PoolIdle

BinaryOperator ==
    /\ call.op = "none"
    /\ \E operator \in Operators, other \in OperandFrames :
        /\ result' = FrameUfuncBinaryOperator(frame, operator, other)
        /\ call' = OperatorCall("binary", operator, other)
        /\ UNCHANGED <<frame, poolVars>>

NextOperator == BinaryOperator

SpecOperator == InitOperator /\ [][NextOperator]_vars

\* the value of f at the labels (r, c), NaN where f lacks the row or column
ValueOrNaN(f, r, c) ==
    IF r \in SeqToSet(f.index) /\ c \in SeqToSet(f.columns)
    THEN Cell(f.blocks, PosOf(f.index, r), PosOf(f.columns, c))
    ELSE NaN

-----------------------------------------------------------------------------
(* Frame.astype: _extract_getitem_astype and FrameAsType.__call__ *)

\* A block given by its width, its dtype and its origin: the number of the
\* block of the source frame whose buffer it is, or 0 for a buffer built anew.
Block(origin, width, dtype) == [origin |-> origin, width |-> width, dtype |-> dtype]

\* TypeBlocks._astype_blocks(column_key, dtype): a block holding no selected
\* column is passed on as it is; a block holding one is rebuilt column by
\* column, the selected columns with the new dtype
RECURSIVE AstypeFrom(_, _, _, _)
AstypeFrom(tb, sel, dtype, b) ==
    IF b > Len(tb.widths) THEN <<>>
    ELSE LET first == BlockStart(tb.widths, b)
             span == first..(first + tb.widths[b] - 1)
             here == IF span \cap sel = {} THEN <<Block(b, tb.widths[b], tb.dtypes[first])>>
                     ELSE [k \in 1..tb.widths[b] |->
                            Block(0, 1, IF (first + k - 1) \in sel THEN dtype
                                        ELSE tb.dtypes[first + k - 1])]
         IN  here \o AstypeFrom(tb, sel, dtype, b + 1)

TBAstypeBlocks(tb, column_key, dtype) ==
    AstypeFrom(tb, SeqToSet(KeyPositions(column_key, tb.shape[2])), dtype, 1)

\* TypeBlocks.consolidate_blocks: each run of adjacent blocks of one dtype
\* becomes one new block; a block alone in its run is passed on as it is
RECURSIVE ConsolidateBlocks(_)
ConsolidateBlocks(blocks) ==
    IF Len(blocks) <= 1 THEN blocks
    ELSE IF blocks[1].dtype = blocks[2].dtype
    THEN ConsolidateBlocks(
            <<Block(0, blocks[1].width + blocks[2].width, blocks[1].dtype)>>
                \o Tail(Tail(blocks)))
    ELSE <<blocks[1]>> \o ConsolidateBlocks(Tail(blocks))

\* the dtype of each column of a sequence of blocks
RECURSIVE ColumnDtypes(_)
ColumnDtypes(blocks) ==
    IF blocks = <<>> THEN <<>>
    ELSE [k \in 1..blocks[1].width |-> blocks[1].dtype] \o ColumnDtypes(Tail(blocks))

\* TypeBlocks.from_blocks of the blocks: the values are those of tb, an
\* integer read as a float being the same number
TBFromAstype(tb, blocks) ==
    [cols |-> tb.cols,
     dtypes |-> ColumnDtypes(blocks),
     widths |-> [b \in 1..Len(blocks) |-> blocks[b].width],
     shape |-> tb.shape,
     origin |-> [b \in 1..Len(blocks) |-> blocks[b].origin]]

\* the consolidate_blocks argument: not given, or given as True or False
ConsolidateArgs == {"default", "True", "False"}

\* consolidate_blocks: bool = True
ConsolidateBlocksValue(arg) == arg \in {"default", "True"}

\* FrameAsType(container, column_key)(dtype, consolidate_blocks)
FrameAsTypeCall(f, column_key, dtype, consolidate_arg) ==
    LET blocks == TBAstypeBlocks(f.blocks, column_key, dtype)
        done == IF ConsolidateBlocksValue(consolidate_arg)
                THEN ConsolidateBlocks(blocks) ELSE blocks
    IN  FrameInit(f.cls, DataTB(TBFromAstype(f.blocks, done)),
                  ArgIndex(f.index), ColumnsArg(f.cls, f.columns),
                  f.name, FALSE, FALSE)

\* Frame._extract_getitem_astype
FrameAstypeGetItem(f, key, dtype, consolidate_arg) ==
    LET iloc_column_key == LocToIloc(f.columns, key)
    IN  IF iloc_column_key.kind = "KeyError" THEN ResErr("KeyError")
        ELSE FrameAsTypeCall(f, iloc_column_key, dtype, consolidate_arg)

-----------------------------------------------------------------------------
(* Specification of astype *)

AstypeDtypes == {"int", "float"}

AstypeCall(op, column_key, dtype, consolidate_arg) ==
    [op |-> op, column_key |-> column_key, dtype |-> dtype,
     consolidate_arg |-> consolidate_arg]

\* astype returns a new Frame, so each behaviour takes one astype of its frame
InitAstype ==
    /\ frame \in {SampleFrame(cls, r, c, split) :
                    cls \in Classes, r \in 1..MaxAxis, c \in 1..(MaxAxis + 1),
                    split \in BOOLEAN}
    /\ result = ResNone
    /\ call = AstypeCall("none", KeyNone, "int", "default")
    /\ PoolIdle

Astype ==
    /\ call.op = "none"
    /\ \E key \in LocKeys(frame.columns), dtype \in AstypeDtypes,
          consolidate_arg \in ConsolidateArgs :
        /\ result' = FrameAstypeGetItem(frame, key, dtype, consolidate_arg)
        /\ call' = AstypeCall("astype", LocToIloc(frame.columns, key), dtype,
                              consolidate_arg)
        /\ UNCHANGED <<frame, poolVars>>

NextAstype == Astype

SpecAstype == InitAstype /\ [][NextAstype]_vars

\* block b of the frame holds none of the selected columns
BlockUntouched(b) ==
    LET first == BlockStart(frame.blocks.widths, b)
    IN  (first..(first + frame.blocks.widths[b] - 1))
            \cap SeqToSet(KeyPositions(call.column_key, Len(frame.columns))) = {}

\* C15: astype returns a Frame with the index, columns and name of the frame;
\* unless consolidation is requested in the call, every block of the frame
\* that holds no selected column is a block of the result, the same buffer
\* at the same columns.
C15_AstypeKeepsOtherBlocks ==
    (call.op = "astype" /\ call.column_key.kind # "KeyError") =>
        /\ result.kind = "frame"
        /\ result.frame.index = frame.index
        /\ result.frame.columns = frame.columns
        /\ result.frame.name = frame.name
        /\ call.consolidate_arg # "True" =>
            \A b \in 1..Len(frame.blocks.widths) :
                BlockUntouched(b) =>
                    \E n \in 1..Len(result.frame.blocks.widths) :
                        /\ result.frame.blocks.origin[n] = b
                        /\ result.frame.blocks.widths[n] = frame.blocks.widths[b]
                        /\ BlockStart(result.frame.blocks.widths, n) =
                                BlockStart(frame.blocks.widths, b)

-----------------------------------------------------------------------------
(* Assignment of a labelled value no reindex rule matches to the key *)

\* a Series with a multiple selection on both axes, a Frame with a single
\* selection on either axis, or either with a single selection on both
IsUnmatchedAssign ==
    LET nm == ExtractAxisNotMulti(call.row_key, call.column_key)
    IN  /\ IsAssignCall
        /\ call.row_key.kind # "KeyError"
        /\ call.column_key.kind # "KeyError"
        /\ \/ call.value.kind = "Series" /\ ~nm[1] /\ ~nm[2]
           \/ call.value.kind = "Frame" /\ (nm[1] \/ nm[2])
           \/ nm[1] /\ nm[2]

\* C16: an assignment of a Series or Frame that no reindex rule matches to
\* the key raises a RuntimeError and returns no Frame.
C16_UnmatchedAssignRaisesRuntimeError ==
    IsUnmatchedAssign =>
        /\ result.kind = "error"
        /\ result.exc = "RuntimeError"

-----------------------------------------------------------------------------
(* Frame.display: the columns rendered *)

\* Display.ELLIPSIS_CENTER_SENTINEL, among column positions 1..n
EllipsisSentinel == 0

\* Display.DATA_MARGINS: the columns of a display that hold no data
DataMargins == 2

\* Display.truncate_half_count(count_target)
TruncateHalfCount(count_target) ==
    IF count_target <= 4 THEN 1 ELSE (count_target - 1) \div 2

\* _gen_skip_middle over n columns: the first forward_count columns, the
\* sentinel, then the last reverse_count columns in their original order
GenSkipMiddle(n, forward_count, reverse_count) ==
    LET fc == IF forward_count < n THEN forward_count ELSE n
        rc == IF reverse_count < n THEN reverse_count ELSE n
    IN  [k \in 1..fc |-> k] \o <<EllipsisSentinel>> \o [k \in 1..rc |-> n - rc + k]

\* display that truncates once the columns reach display_columns
DisplayColumnGen_AtLimit(f, display_columns) ==
    IF f.blocks.shape[2] >= display_columns
    THEN LET data_half_count == TruncateHalfCount(display_columns - DataMargins)
         IN  GenSkipMiddle(f.blocks.shape[2], data_half_count, data_half_count)
    ELSE [k \in 1..f.blocks.shape[2] |-> k]

\* the positions of the columns Frame.display renders, in rendering order
DisplayColumnGen(f, display_columns) ==
    IF f.blocks.shape[2] > display_columns
    THEN LET data_half_count == TruncateHalfCount(display_columns - DataMargins)
         IN  GenSkipMiddle(f.blocks.shape[2], data_half_count, data_half_count)
    ELSE [k \in 1..f.blocks.shape[2] |-> k]

ResDisplay(columns) == [ResNone EXCEPT !.kind = "display", !.scalar = columns]

-----------------------------------------------------------------------------
(* Specification of display *)

DisplayCall(op, display_columns) == [op |-> op, display_columns |-> display_columns]

InitDisplay ==
    /\ frame \in {SampleFrame(cls, r, c, FALSE) :
                    cls \in Classes, r \in 1..MaxAxis, c \in 0..MaxDisplay}
    /\ result = ResNone
    /\ call = DisplayCall("none", 1)
    /\ PoolIdle

DisplayFrame ==
    /\ call.op = "none"
    /\ \E display_columns \in 1..MaxDisplay :
        /\ result' = ResDisplay(DisplayColumnGen(frame, display_columns))
        /\ call' = DisplayCall("display", display_columns)
        /\ UNCHANGED <<frame, poolVars>>

NextDisplay == DisplayFrame

SpecDisplay == InitDisplay /\ [][NextDisplay]_vars

\* C17: with no more columns than display_columns, display renders every
\* column in order and no ellipsis; with more, it renders h leading columns,
\* one ellipsis and h trailing columns in their original order, h >= 1 being
\* a function of display_columns alone.
C17_DisplayColumns ==
    (call.op = "display") =>
        LET n == Len(frame.columns)
            out == result.scalar
            h == (Len(out) - 1) \div 2
        IN  IF n <= call.display_columns
            THEN out = [k \in 1..n |-> k]
            ELSE /\ Len(out) = 2 * h + 1
                 /\ h >= 1
                 /\ h = TruncateHalfCount(call.display_columns - DataMargins)
                 /\ out[h + 1] = EllipsisSentinel
                 /\ \A k \in 1..h : out[k] = k /\ out[h + 1 + k] = n - h + k

\* five columns with display_columns 5: every column, no ellipsis
C17_Witness ==
    /\ call.op = "display"
    /\ call.display_columns = 5
    /\ Len(frame.columns) = 5
    /\ result.scalar = <<1, 2, 3, 4, 5>>

-----------------------------------------------------------------------------
(* apply with a mapping *)

\* what a mapping gives for the value v of an item: mapping[v] when v is a
\* key of the mapping, v itself when it is not
MappedOrUnchanged(func, v) ==
    IF v \in func.keys THEN CallGetItem(func, <<v>>).value ELSE v

\* C18: given a mapping, apply builds its container from the pairs
\* (k, mapping[v]) for the values found in the mapping and (k, v) for the
\* values not found, in iteration order, and does not raise.
C18_MappingApply ==
    (node.func.kind = "mapping" /\ result.kind # "none") =>
        result = Constructed([i \in 1..Len(node.items) |->
                    <<node.items[i].k, MappedOrUnchanged(node.func, node.items[i].v)>>])

-----------------------------------------------------------------------------
(* Specification of the lifetime of the pool of apply_pool *)

\* the constructor raises while it consumes the pairs: the exception leaves
\* apply_pool while the generator stays suspended at its yield, inside the
\* with block, so the executor is not shut down
ConstructorRaises ==
    /\ pc = "zip"
    /\ Len(delivered) >= 1
    /\ pc' = "raised"
    /\ pool_result' = ResErr("ConstructorError")
    /\ UNCHANGED <<frameVars, node, executor, func_keys, futures, done_order,
                   delivered>>

\* the suspended generator is finalized once nothing refers to it any more,
\* after the call has raised: GeneratorExit leaves the with block and the
\* executor is shut down
GeneratorFinalized ==
    /\ pc = "raised"
    /\ pc' = "finalized"
    /\ executor' = "shutdown"
    /\ futures' = [j \in 1..Len(futures) |->
                    IF futures[j].kind = "pending" THEN Cancelled ELSE futures[j]]
    /\ UNCHANGED <<frameVars, node, func_keys, done_order, delivered, pool_result>>

NextPoolLife == NextPool \/ ConstructorRaises \/ GeneratorFinalized

SpecPoolLife == InitPool /\ [][NextPoolLife]_vars

\* apply_pool has returned its container or raised
PoolCallEnded == pc \in {"done", "failed", "raised", "finalized"}

\* C19: the executor exists before any unit of work is submitted, and it is
\* shut down once the apply_pool call has returned or raised.
C19_PoolReleasedWithCall ==
    /\ Len(futures) > 0 => executor # "none"
    /\ PoolCallEnded => executor = "shutdown"

-----------------------------------------------------------------------------
(* Frame.to_frame_go and FrameGO.to_frame *)

\* TypeBlocks.copy(): a new block store over the same arrays; same_object
\* tells whether the store returned is the receiver itself
TBCopy(tb) == [tb |-> tb, same_object |-> FALSE]

\* the store handed on as it is
TBCopy_Same(tb) == [tb |-> tb, same_object |-> TRUE]

\* A conversion gives the new container and tells whether its block store and
\* its columns index are the objects the receiver holds.  With own_data the
\* constructor keeps the store it is given; columns.values is an array of
\* labels, from which the constructor builds a new index.
Converted(res, blocks_alias, columns_alias) ==
    [res |-> res, blocks_alias |-> blocks_alias, columns_alias |-> columns_alias]

ConvertTo(cls, f, blocks) ==
    Converted(FrameInit(cls, DataTB(blocks.tb), ArgIndex(f.index),
                        ArgSeq(f.columns), f.name, TRUE, FALSE),
              blocks.same_object, FALSE)

\* to_frame that hands its own block store to the Frame
FrameGOToFrame_NoCopy(f) == ConvertTo("Frame", f, TBCopy_Same(f.blocks))

\* Frame.to_frame_go
FrameToFrameGO(f) == ConvertTo("FrameGO", f, TBCopy(f.blocks))

\* FrameGO.to_frame
FrameGOToFrame(f) == ConvertTo("Frame", f, TBCopy(f.blocks))

-----------------------------------------------------------------------------
(* Specification of conversion followed by growth of the FrameGO side *)

\* frame holds the FrameGO side, result the Frame side; original is the
\* receiver as it was when converted and grown counts the additions made
ConvertCall(op, conv, blocks_alias, columns_alias, original, grown) ==
    [op |-> op, conv |-> conv, blocks_alias |-> blocks_alias,
     columns_alias |-> columns_alias, original |-> original, grown |-> grown]

InitConvert ==
    /\ frame \in {SampleFrame(cls, r, c, split) :
                    cls \in Classes, r \in 0..MaxAxis, c \in 0..MaxAxis,
                    split \in BOOLEAN}
    /\ result = ResNone
    /\ call = ConvertCall("none", "none", FALSE, FALSE, NoFrame, 0)
    /\ PoolIdle

ToFrameGO ==
    /\ call.conv = "none"
    /\ frame.cls = "Frame"
    /\ LET c == FrameToFrameGO(frame)
       IN  /\ c.res.kind = "frame"
           /\ frame' = c.res.frame
           /\ result' = ResFrame(frame)
           /\ call' = ConvertCall("to_frame_go", "to_frame_go", c.blocks_alias,
                                  c.columns_alias, frame, 0)
    /\ UNCHANGED poolVars

ToFrame ==
    /\ call.conv = "none"
    /\ frame.cls = "FrameGO"
    /\ LET c == FrameGOToFrame(frame)
       IN  /\ c.res.kind = "frame"
           /\ result' = c.res
           /\ call' = ConvertCall("to_frame", "to_frame", c.blocks_alias,
                                  c.columns_alias, frame, 0)
    /\ UNCHANGED <<frame, poolVars>>

\* a column addition to the FrameGO side; the Frame side sees it through
\* every object it shares with the FrameGO side
GrowStep(op, eff) ==
    /\ call.conv # "none"
    /\ Len(eff.frame.columns) <= MaxGoCols
    /\ frame' = eff.frame
    /\ result' = ResFrame([result.frame EXCEPT
            !.blocks = IF call.blocks_alias THEN eff.frame.blocks ELSE @,
            !.columns = IF call.columns_alias THEN eff.frame.columns ELSE @])
    /\ call' = [call EXCEPT !.op = op,
                            !.grown = IF Len(eff.frame.columns) > Len(frame.columns)
                                      THEN 1 ELSE @]
    /\ UNCHANGED poolVars

GrowSetItem ==
    \E key \in GoKeys, value \in GoValues :
        GrowStep("setitem", FrameGOSetItem(frame, key, value, NaN))

GrowExtendItems ==
    \E pairs \in GoPairs :
        GrowStep("extend_items", FrameGOExtendItems(frame, pairs, NaN))

GrowExtend ==
    \E container \in GoContainers :
        GrowStep("extend", FrameGOExtend(frame, container, NaN))

NextConvert ==
    ToFrameGO \/ ToFrame \/ GrowSetItem \/ GrowExtendItems \/ GrowExtend

SpecConvert == InitConvert /\ [][NextConvert]_vars

\* C20: after to_frame_go or to_frame the two containers have the labels,
\* name and values of the receiver, and whatever columns are then added to
\* the FrameGO side, the Frame side keeps the columns, shape and values the
\* receiver had.
C20_ConversionIndependent ==
    (call.conv # "none") =>
        /\ frame.cls = "FrameGO"
        /\ result.kind = "frame"
        /\ result.frame.cls = "Frame"
        /\ result.frame.index = call.original.index
        /\ result.frame.columns = call.original.columns
        /\ result.frame.name = call.original.name
        /\ result.frame.blocks.shape = call.original.blocks.shape
        /\ result.frame.blocks.cols = call.original.blocks.cols
        /\ call.op \in {"to_frame_go", "to_frame"} =>
            /\ frame.index = call.original.index
            /\ frame.columns = call.original.columns
            /\ frame.name = call.original.name
            /\ frame.blocks.cols = call.original.blocks.cols

\* a FrameGO of two columns converted with to_frame and then grown to three
C20_Witness ==
    /\ call.conv = "to_frame"
    /\ call.grown = 1
    /\ Len(frame.columns) = 3
    /\ Len(result.frame.columns) = 2
    /\ result.frame.blocks.shape = <<2, 2>>

-----------------------------------------------------------------------------
(* Frame.head / Frame.tail *)

\* a bound of a Python slice: absent (None) or an integer
BoundNone == [given |-> FALSE, v |-> 0]

BoundInt(v) == [given |-> TRUE, v |-> v]

\* slice.indices(n) for one bound with step 1: an absent bound takes its
\* default, a negative bound counts from the end, and both are clipped
SliceBound(b, n, default) ==
    IF ~b.given THEN default
    ELSE IF b.v < 0 THEN (IF b.v + n < 0 THEN 0 ELSE b.v + n)
    ELSE IF b.v > n THEN n ELSE b.v

\* the position key slice(start, stop) on an axis of length n
PySlice(start, stop, n) ==
    LET a == SliceBound(start, n, 0)
        b == SliceBound(stop, n, n)
    IN  KeySlice(a, IF b < a THEN a ELSE b)

\* self.iloc[:count]
FrameHead(f, count) ==
    FrameExtract(f, PySlice(BoundNone, BoundInt(count), Len(f.index)), KeyNone)

\* self.iloc[-count:]
FrameTail(f, count) ==
    FrameExtract(f, PySlice(BoundInt(0 - count), BoundNone, Len(f.index)),
                 KeyNone)

-----------------------------------------------------------------------------
(* Specification of head and tail *)

HeadCall(op, count) == [op |-> op, count |-> count]

InitHead ==
    /\ frame \in {SampleFrame(cls, r, c, split) :
                    cls \in Classes, r \in 0..(MaxAxis + 1), c \in 0..MaxAxis,
                    split \in BOOLEAN}
    /\ result = ResNone
    /\ call = HeadCall("none", 0)
    /\ PoolIdle

HeadRows ==
    /\ call.op = "none"
    /\ \E count \in 0..(MaxAxis + 2) :
        /\ result' = FrameHead(frame, count)
        /\ call' = HeadCall("head", count)
        /\ UNCHANGED <<frame, poolVars>>

TailRows ==
    /\ call.op = "none"
    /\ \E count \in 0..(MaxAxis + 2) :
        /\ result' = FrameTail(frame, count)
        /\ call' = HeadCall("tail", count)
        /\ UNCHANGED <<frame, poolVars>>

NextHead == HeadRows \/ TailRows

SpecHead == InitHead /\ [][NextHead]_vars

\* the frame of rows first..(first + count - 1) of the called frame
IsRowsOf(first, count) ==
    /\ result.kind = "frame"
    /\ result.frame.index = SubSeq(frame.index, first, first + count - 1)
    /\ result.frame.columns = frame.columns
    /\ result.frame.blocks.shape = <<count, Len(frame.columns)>>
    /\ \A j \in 1..Len(frame.columns) :
            result.frame.blocks.cols[j]
                = SubSeq(frame.blocks.cols[j], first, first + count - 1)

\* C21: for 0 <= count <= len(F), head(count) is the frame of the first
\* count rows and tail(count) is the frame of the last count rows; count 0
\* gives a frame with no rows for both.
C21_HeadTailRows ==
    (call.op \in {"head", "tail"} /\ call.count <= Len(frame.index)) =>
        IF call.op = "head"
        THEN IsRowsOf(1, call.count)
        ELSE IsRowsOf(Len(frame.index) - call.count + 1, call.count)

\* head for every count, and tail for every count but 0
C21_HeadTailRows_Positive ==
    (call.op \in {"head", "tail"} /\ call.count <= Len(frame.index)
        /\ (call.op = "tail" => call.count > 0)) =>
        IF call.op = "head"
        THEN IsRowsOf(1, call.count)
        ELSE IsRowsOf(Len(frame.index) - call.count + 1, call.count)

\* tail(0) on a frame with rows returns every row
C21_TailZeroIsWhole ==
    /\ call.op = "tail" /\ call.count = 0
    /\ Len(frame.index) > 0
    /\ result.kind = "frame"
    /\ result.frame.index = frame.index

-----------------------------------------------------------------------------
(* Specification of one FrameGO.__setitem__ call *)

SetItemCall(op, key, value) == [op |-> op, key |-> key, value |-> value]

InitSetItem ==
    /\ frame \in {SampleFrame("FrameGO", r, c, FALSE) :
                    r \in 0..MaxAxis, c \in 0..MaxAxis}
    /\ result = ResNone
    /\ call = SetItemCall("none", 0, ValElement(0))
    /\ PoolIdle

SetItemOnce ==
    /\ call.op = "none"
    /\ \E key \in GoKeys, value \in GoValues :
        LET eff == FrameGOSetItem(frame, key, value, NaN)
        IN  /\ frame' = eff.frame
            /\ result' = eff.res
            /\ call' = SetItemCall("setitem", key, value)
            /\ UNCHANGED poolVars

NextSetItem == SetItemOnce

SpecSetItem == InitSetItem /\ [][NextSetItem]_vars

\* the value is an array or a sequence whose length is not the row count
IsMissizedValue(value, f) ==
    value.kind \in {"ndarray", "list"} /\ Len(value.values) # Len(f.index)

\* C22: __setitem__ with a key already in the columns, or with an unindexed
\* array or sequence whose length differs from the row count, raises
\* RuntimeError and leaves the columns and the block store as they were.
C22_SetItemRejects ==
    [][(call'.op = "setitem"
            /\ (call'.key \in SeqToSet(frame.columns)
                    \/ IsMissizedValue(call'.value, frame))) =>
        /\ result'.kind = "error"
        /\ result'.exc = "RuntimeError"
        /\ frame'.columns = frame.columns
        /\ frame'.blocks = frame.blocks
      ]_vars

\* a list of the wrong length given under a new key to a frame with columns
C22_Witness ==
    /\ call.op = "setitem"
    /\ call.key \notin SeqToSet(frame.columns)
    /\ Len(frame.columns) > 0
    /\ call.value.kind = "list"
    /\ Len(call.value.values) = Len(frame.index) + 1
    /\ result.kind = "error"
    /\ result.exc = "RuntimeError"

-----------------------------------------------------------------------------
(* Size of the supplied labels against the data, over the constructor calls *)

\* the call gives array data and unique labels
IsSizedCall ==
    /\ call.op = "Frame"
    /\ call.data.kind = "ndarray"
    /\ IsUnique(call.index.labels)
    /\ IsUnique(call.columns.labels)

IndexMismatch ==
    call.index.kind # "None" /\ Len(call.index.labels) # call.data.tb.shape[1]

ColumnsMismatch ==
    call.columns.kind # "None" /\ Len(call.columns.labels) # call.data.tb.shape[2]

\* C23: a supplied index whose length differs from the row count of the
\* data, or supplied columns whose length differs from its column count,
\* makes the constructor raise RuntimeError, for every supplied length: an
\* empty label sequence with non-empty data and a non-empty index with
\* zero-row data included.
C23_SizeMismatchRaises ==
    (IsSizedCall /\ (IndexMismatch \/ ColumnsMismatch)) =>
        (result.kind = "error" /\ result.exc = "RuntimeError")

\* the same for supplied labels that are not empty and data that has rows
C23_SizeMismatchRaises_NonEmpty ==
    (/\ IsSizedCall
     /\ call.data.tb.shape[1] > 0
     /\ call.index.kind # "None" => Len(call.index.labels) > 0
     /\ call.columns.kind # "None" => Len(call.columns.labels) > 0
     /\ IndexMismatch \/ ColumnsMismatch) =>
        (result.kind = "error" /\ result.exc = "RuntimeError")

\* empty columns given as a plain sequence with data of two columns: a Frame
\* with default column labels is returned
C23_EmptyColumnsAccepted ==
    /\ IsSizedCall
    /\ call.columns = ArgSeq(<<>>)
    /\ call.data.tb.shape = <<1, 2>>
    /\ call.index.kind = "None"
    /\ result.kind = "frame"
    /\ result.frame.columns = RangeLabels(2)

\* a non-empty index given with zero-row data: a Frame is returned
C23_IndexOnZeroRowsAccepted ==
    /\ IsSizedCall
    /\ call.data.tb.shape[1] = 0
    /\ Len(call.index.labels) > 0
    /\ ~ColumnsMismatch
    /\ result.kind = "frame"

-----------------------------------------------------------------------------
(* Frame.reindex_add_level *)

\* the index / columns argument: None or a hashable label; integers stand
\* for the labels, 0 for the labels Python takes as false (0, False, '')
LevelNone == [given |-> FALSE, label |-> 0]

LevelLabel(label) == [given |-> TRUE, label |-> label]

\* bool(x) of the argument
IsTruthy(arg) == arg.given /\ arg.label # 0

\* An index after the call: its leaf labels and the root levels put above
\* them.  Index.add_level(level) puts one root level above the labels.
IndexAddLevel(labels, level) == [labels |-> labels, roots |-> <<level>>]

\* Index.copy()
IndexCopy(labels) == [labels |-> labels, roots |-> <<>>]

ResLevelled(f, index_roots, columns_roots) ==
    [kind |-> "frame", exc |-> "", frame |-> f, series |-> NoSeries, scalar |-> 0,
     index_roots |-> index_roots, columns_roots |-> columns_roots]

FrameReindexAddLevel(f, index, columns) ==
    LET idx == IF IsTruthy(index) THEN IndexAddLevel(f.index, index.label)
               ELSE IndexCopy(f.index)
        cols == IF IsTruthy(columns) THEN IndexAddLevel(f.columns, columns.label)
                ELSE IndexCopy(f.columns)
        made == FrameInit(f.cls, DataTB(TBCopy(f.blocks).tb), ArgIndex(idx.labels),
                          ColumnsArg(f.cls, cols.labels), f.name, TRUE, TRUE)
    IN  ResLevelled(made.frame, idx.roots, cols.roots)

-----------------------------------------------------------------------------
(* Specification of reindex_add_level *)

LevelArgs == {LevelNone} \cup {LevelLabel(x) : x \in 0..MaxLabel}

AddLevelCall(op, index, columns) == [op |-> op, index |-> index, columns |-> columns]

InitAddLevel ==
    /\ frame \in {SampleFrame(cls, r, c, split) :
                    cls \in Classes, r \in 1..MaxAxis, c \in 1..MaxAxis,
                    split \in BOOLEAN}
    /\ result = ResNone
    /\ call = AddLevelCall("none", LevelNone, LevelNone)
    /\ PoolIdle

ReindexAddLevel ==
    /\ call.op = "none"
    /\ \E index \in LevelArgs, columns \in LevelArgs :
        /\ result' = FrameReindexAddLevel(frame, index, columns)
        /\ call' = AddLevelCall("reindex_add_level", index, columns)
        /\ UNCHANGED <<frame, poolVars>>

NextAddLevel == ReindexAddLevel

SpecAddLevel == InitAddLevel /\ [][NextAddLevel]_vars

\* the root levels an argument asks for
RootsAsked(arg) == IF arg.given THEN <<arg.label>> ELSE <<>>

\* C24: reindex_add_level(index=L) returns a Frame whose row index has the
\* new root level L above its labels, and columns=L does the same for the
\* columns, for every hashable L; an axis whose argument is not given keeps
\* its depth.
C24_AddLevel ==
    (call.op = "reindex_add_level") =>
        /\ result.kind = "frame"
        /\ result.frame.index = frame.index
        /\ result.frame.columns = frame.columns
        /\ result.frame.blocks.cols = frame.blocks.cols
        /\ result.index_roots = RootsAsked(call.index)
        /\ result.columns_roots = RootsAsked(call.columns)

\* the same for labels that Python takes as true
C24_AddLevel_Truthy ==
    (/\ call.op = "reindex_add_level"
     /\ call.index.given => call.index.label # 0
     /\ call.columns.given => call.columns.label # 0) =>
        /\ result.kind = "frame"
        /\ result.frame.index = frame.index
        /\ result.frame.columns = frame.columns
        /\ result.frame.blocks.cols = frame.blocks.cols
        /\ result.index_roots = RootsAsked(call.index)
        /\ result.columns_roots = RootsAsked(call.columns)

\* index=0 is given and the row index comes back without a new level
C24_FalsyLabelIgnored ==
    /\ call.op = "reindex_add_level"
    /\ call.index = LevelLabel(0)
    /\ result.kind = "frame"
    /\ result.index_roots = <<>>

-----------------------------------------------------------------------------
(* Frame.from_items *)

\* _is_index_initializer(index): an index was supplied
IsIndexInitializer(index) == index.kind # "None"

\* what blocks() yields for the pair value v: the array, or the error raised
\* blocks() that places every value by position
ItemsBlock_Positional(v, index, fill_value) == Array1D(v.values)

ItemsBlock(v, index, fill_value) ==
    IF v.kind = "Series"
    THEN IF index.kind = "None" THEN ArrayErr("RuntimeError")
         ELSE IF RequiresReindex(v.index, index.labels)
         THEN Array1D(SeriesReindex(SeriesOf(v.values, v.index, v.name),
                                    index.labels, fill_value).values)
         ELSE Array1D(v.values)
    ELSE Array1D(v.values)

\* TypeBlocks.from_blocks over the generator: the blocks are taken in order;
\* the first error of the generator, or the first block whose row count
\* differs from the blocks before it, ends the construction
RECURSIVE TBFromBlocks(_, _)
TBFromBlocks(tb, arrays) ==
    IF arrays = <<>> THEN [exc |-> "", tb |-> tb]
    ELSE LET a == Head(arrays)
         IN  IF a.exc # "" THEN [exc |-> a.exc, tb |-> tb]
             ELSE IF tb.shape[2] > 0 /\ Len(a.vec) # tb.shape[1]
             THEN [exc |-> "ShapeError", tb |-> tb]
             ELSE TBFromBlocks(
                    TB(Append(tb.cols, a.vec), Append(tb.dtypes, ArrayDtype(a.vec)),
                       Append(tb.widths, 1), <<Len(a.vec), tb.shape[2] + 1>>),
                    Tail(arrays))

FrameFromItems(cls, pairs, index, fill_value) ==
    IF IsIndexInitializer(index) /\ ~IsUnique(index.labels)
    THEN ResErr("ConstructionError")
    ELSE
    LET own_index == IsIndexInitializer(index)
        made == TBFromBlocks(EmptyTB,
                    [p \in 1..Len(pairs) |-> ItemsBlock(pairs[p][2], index, fill_value)])
        columns == [p \in 1..Len(pairs) |-> pairs[p][1]]
    IN  IF made.exc # "" THEN ResErr(made.exc)
        ELSE FrameInit(cls, DataTB(made.tb),
                       IF own_index THEN ArgIndex(index.labels) ELSE ArgNone,
                       ArgSeq(columns), 0, own_index, FALSE)

-----------------------------------------------------------------------------
(* Specification of from_items *)

ItemKeys == {31, 32}

PairValues ==
    {ValSeries(SeriesOf(<<71, 72>>, <<21, 22>>, 32)),
     ValSeries(SeriesOf(<<73, 71>>, <<23, 21>>, 31)),
     ValList(<<51, 52>>), ValArray(<<53, 54>>), ValList(<<55>>)}

ItemPairs == SeqsUpTo(ItemKeys \X PairValues, MaxItems)

ItemIndexes == {ArgNone, ArgSeq(<<21, 22>>), ArgSeq(<<22, 24>>)}

ItemsCall(op, pairs, index, fill_value) ==
    [op |-> op, pairs |-> pairs, index |-> index, fill_value |-> fill_value]

InitItems ==
    /\ frame = NoFrame
    /\ result = ResNone
    /\ call = ItemsCall("none", <<>>, ArgNone, NaN)
    /\ PoolIdle

FromItems ==
    /\ call.op = "none"
    /\ \E cls \in Classes, pairs \in ItemPairs, index \in ItemIndexes,
          fill_value \in FillValues :
        /\ result' = FrameFromItems(cls, pairs, index, fill_value)
        /\ call' = ItemsCall("from_items", pairs, index, fill_value)
        /\ UNCHANGED <<frame, poolVars>>

NextItems == FromItems

SpecItems == InitItems /\ [][NextItems]_vars

\* the pairs have distinct keys and their unindexed values have the length
\* the frame is to have
IsSizedItems ==
    LET unindexed == {p \in 1..Len(call.pairs) : call.pairs[p][2].kind # "Series"}
        rows == IF call.index.kind # "None" THEN Len(call.index.labels)
                ELSE IF unindexed = {} THEN 0
                ELSE Len(call.pairs[CHOOSE p \in unindexed : TRUE][2].values)
    IN  /\ call.op = "from_items"
        /\ Len(call.pairs) > 0
        /\ IsUnique([p \in 1..Len(call.pairs) |-> call.pairs[p][1]])
        /\ \A p \in unindexed : Len(call.pairs[p][2].values) = rows

HasSeriesItem == \E p \in 1..Len(call.pairs) : call.pairs[p][2].kind = "Series"

\* column p of the result holds the value of pair p: a Series by the labels
\* of the supplied index, fill_value where the Series lacks the label
IsColumnOfPair(p) ==
    LET v == call.pairs[p][2]
        col == result.frame.blocks.cols[p]
        labels == call.index.labels
    IN  IF v.kind # "Series" THEN col = v.values
        ELSE /\ Len(col) = Len(labels)
             /\ \A k \in 1..Len(labels) :
                    IF \E m \in 1..Len(v.index) : v.index[m] = labels[k]
                    THEN \E m \in 1..Len(v.index) :
                            v.index[m] = labels[k] /\ col[k] = v.values[m]
                    ELSE col[k] = call.fill_value

\* C25: from_items creates one column per pair, in pair order, labelled by
\* the key of the pair; a Series value is aligned by label onto the supplied
\* index, with fill_value at the index labels the Series lacks; a Series
\* value given without an index raises RuntimeError.
C25_FromItems ==
    IsSizedItems =>
        IF HasSeriesItem /\ call.index.kind = "None"
        THEN result.kind = "error" /\ result.exc = "RuntimeError"
        ELSE /\ result.kind = "frame"
             /\ result.frame.columns = [p \in 1..Len(call.pairs) |-> call.pairs[p][1]]
             /\ Len(result.frame.blocks.cols) = Len(call.pairs)
             /\ \A p \in 1..Len(call.pairs) : IsColumnOfPair(p)

\* a list and a Series placed on an index that holds one label of the
\* Series: the Series column takes its value at that label and fill_value 0
C25_Witness ==
    /\ IsSizedItems
    /\ call.index = ArgSeq(<<22, 24>>)
    /\ call.fill_value = 0
    /\ call.pairs = <<<<31, ValList(<<51, 52>>)>>,
                      <<32, ValSeries(SeriesOf(<<71, 72>>, <<21, 22>>, 32))>>>>
    /\ result.kind = "frame"
    /\ result.frame.columns = <<31, 32>>
    /\ result.frame.blocks.cols = <<<<51, 52>>, <<72, 0>>>>

\* a Series given without an index is refused
C25_WitnessNoIndex ==
    /\ IsSizedItems
    /\ call.index = ArgNone
    /\ HasSeriesItem
    /\ result.kind = "error"
    /\ result.exc = "RuntimeError"

-----------------------------------------------------------------------------
(* Shape of a FrameGO over sequences of in-place calls *)

\* C26: after any sequence of __setitem__, extend_items and extend calls,
\* calls that raise included, the FrameGO has as many column labels as its
\* block store has columns and as many index labels as it has rows.
C26_GrowKeepsShape ==
    /\ Len(frame.columns) = frame.blocks.shape[2]
    /\ Len(frame.index) = frame.blocks.shape[1]

\* the same after sequences of calls that all returned
C26_GrowKeepsShape_AllOk ==
    call.all_ok => C26_GrowKeepsShape

\* the same after sequences of __setitem__ and extend_items calls
C26_GrowKeepsShape_SetItem ==
    [][call'.op \in {"setitem", "extend_items"} =>
        (C26_GrowKeepsShape => C26_GrowKeepsShape')]_vars

\* an extend that raised on a label already present and left a label in the
\* columns for which the block store has no column
C26_ExtendLeftLabel ==
    /\ call.op = "extend"
    /\ result.kind = "error"
    /\ Len(frame.columns) > frame.blocks.shape[2]

-----------------------------------------------------------------------------
(* Failed in-place growth *)

\* the call made by the step raised
GrowRaised(ops) == call'.op \in ops /\ result'.kind = "error"

\* C27: in-place growth is all-or-nothing: when extend_items raises part-way
\* through its pairs, or when extend raises, the FrameGO has the columns and
\* blocks it had before the call.
C27_GrowAllOrNothing ==
    [][GrowRaised({"extend_items", "extend"}) =>
        /\ frame'.columns = frame.columns
        /\ frame'.blocks = frame.blocks
      ]_vars

\* the same for a single __setitem__
C27_GrowAllOrNothing_SetItem ==
    [][GrowRaised({"setitem"}) =>
        /\ frame'.columns = frame.columns
        /\ frame'.blocks = frame.blocks
      ]_vars

\* an extend_items that raised at its second pair and left the column of
\* its first pair in the frame
C27_ExtendItemsLeftColumn ==
    /\ call.op = "extend_items"
    /\ result.kind = "error"
    /\ Len(call.given) = 2
    /\ Len(frame.columns) = 2
    /\ frame.columns[2] = call.given[1]
    /\ frame.blocks.shape[2] = 2

-----------------------------------------------------------------------------
(* Frame-returning operations: the objects a result shares with its receiver *)

\* What an operation returns: the container, whether it is the receiver
\* itself, and whether its block store and its columns index are the objects
\* the receiver holds.
Shared(res, is_self, blocks_alias, columns_alias) ==
    [res |-> res, is_self |-> is_self, blocks_alias |-> blocks_alias,
     columns_alias |-> columns_alias]

\* Frame.__init__: a TypeBlocks given with own_data is kept as it is,
\* otherwise a new store is made over its blocks
KeepsBlocks(own_store, own_data) == own_store /\ own_data

\* Frame.__init__: the columns object given is kept with own_columns, or
\* when it is static and the class has static columns; otherwise the columns
\* constructor builds a new index from it
KeepsColumns(cls, own_index_object, own_columns) ==
    own_index_object /\ (own_columns \/ ColumnConstructorStatic(cls))

\* the rows at the given positions (1-based), in the given order
TBRows(tb, rows) ==
    TB([j \in 1..Len(tb.cols) |-> [i \in 1..Len(rows) |-> tb.cols[j][rows[i]]]],
       tb.dtypes, tb.widths, <<Len(rows), tb.shape[2]>>)

\* the positions of 1..n that satisfy keep, ascending
KeptPositions(n, keep(_)) == SelectSeq([i \in 1..n |-> i], keep)

\* Frame.rename
FrameRename(f, name) ==
    LET blocks == TBCopy(f.blocks)
    IN  Shared(FrameInit(f.cls, DataTB(blocks.tb), ArgIndex(f.index),
                         ColumnsArg(f.cls, f.columns), name, TRUE, FALSE),
               FALSE, KeepsBlocks(blocks.same_object, TRUE),
               KeepsColumns(f.cls, TRUE, FALSE))

\* Frame._extract reached with keys that select every column or not:
\* TypeBlocks._extract returns a new store; the columns object is the
\* receiver's when the column key is None or the null slice
FrameExtractShared(f, row_key, column_key) ==
    LET whole_columns == column_key.kind \in {"None", "null_slice"}
    IN  Shared(FrameExtract(f, row_key, column_key), FALSE,
               KeepsBlocks(FALSE, TRUE),
               KeepsColumns(f.cls, whole_columns,
                            IF whole_columns THEN ColumnConstructorStatic(f.cls)
                            ELSE TRUE))

\* Frame._drop_iloc with a row key
FrameDropIloc(f, row_key) ==
    LET gone == SeqToSet(KeyPositions(row_key, Len(f.index)))
        keep == KeptPositions(Len(f.index), LAMBDA i : i \notin gone)
    IN  Shared(FrameInit(f.cls, DataTB(TBRows(f.blocks, keep)),
                         ArgIndex([k \in 1..Len(keep) |-> f.index[keep[k]]]),
                         ColumnsArg(f.cls, f.columns), f.name, TRUE, FALSE),
               FALSE, KeepsBlocks(FALSE, TRUE), KeepsColumns(f.cls, TRUE, FALSE))

\* Frame.dropna(axis=0): the rows that are not wholly NaN are kept;
\* column_key is what dropna_to_keep_locations gives for the columns
FrameDropNa(f, column_key) ==
    LET all_na(i) == \A j \in 1..Len(f.blocks.cols) : f.blocks.cols[j][i] = NaN
        keep == KeptPositions(Len(f.index), LAMBDA i : ~all_na(i))
        row_key == KeyList([k \in 1..Len(keep) |-> keep[k] - 1])
    IN  IF f.cls = "Frame" /\ column_key.kind # "None" /\ Len(keep) = Len(f.index)
        THEN Shared(ResFrame(f), TRUE, TRUE, TRUE)
        ELSE FrameExtractShared(f, row_key, column_key)

\* the data argument self.values[keep]
DataValues(tb) == [kind |-> "ndarray", tb |-> tb, element |-> 0]

\* Frame.drop_duplicated(axis=0)
FrameDropDuplicated(f) ==
    LET n == Len(f.index)
        same(i, k) == \A j \in 1..Len(f.blocks.cols) :
                            f.blocks.cols[j][i] = f.blocks.cols[j][k]
        duplicates(i) == \E k \in (1..n) \ {i} : same(i, k)
        keep == KeptPositions(n, LAMBDA i : ~duplicates(i))
        values == TBFromArray(DtypeResolveAll(f.blocks.dtypes), Len(keep),
                              TBRows(f.blocks, keep).cols)
    IN  IF ~\E i \in 1..n : duplicates(i)
        THEN Shared(ResFrame(f), TRUE, TRUE, TRUE)
        ELSE Shared(FrameInit(f.cls, DataValues(values),
                              ArgIndex([k \in 1..Len(keep) |-> f.index[keep[k]]]),
                              ColumnsArg(f.cls, f.columns), 0, FALSE, FALSE),
                    FALSE, KeepsBlocks(FALSE, FALSE), KeepsColumns(f.cls, TRUE, FALSE))

\* Frame.fillna(value)
FrameFillNa(f, value) ==
    LET filled == [f.blocks EXCEPT !.cols =
                        [j \in 1..Len(f.blocks.cols) |->
                            [i \in 1..Len(f.blocks.cols[j]) |->
                                IF f.blocks.cols[j][i] = NaN THEN value
                                ELSE f.blocks.cols[j][i]]]]
    IN  Shared(FrameInit(f.cls, DataTB(filled), ArgIndex(f.index),
                         ColumnsArg(f.cls, f.columns), f.name, FALSE, FALSE),
               FALSE, KeepsBlocks(FALSE, TRUE), KeepsColumns(f.cls, TRUE, FALSE))

\* Frame.reindex(index=...): columns is not given, so the receiver's columns
\* object is handed to the constructor without own_columns
FrameReindexShared(f, index) ==
    Shared(FrameReindex(f, ArgSeq(index), ArgNone, NaN), FALSE,
           KeepsBlocks(FALSE, TRUE), KeepsColumns(f.cls, TRUE, FALSE))

\* Frame.relabel(): both indexes are copies
FrameRelabel(f) ==
    LET blocks == TBCopy(f.blocks)
    IN  Shared(FrameInit(f.cls, DataTB(blocks.tb),
                         ArgIndex(IndexCopy(f.index).labels),
                         ColumnsArg(f.cls, IndexCopy(f.columns).labels),
                         f.name, TRUE, TRUE),
               FALSE, KeepsBlocks(blocks.same_object, TRUE),
               KeepsColumns(f.cls, FALSE, TRUE))

\* TypeBlocks._shift_blocks(row_shift, wrap, fill_value) on the rows
TBShiftRows(tb, row_shift, wrap, fill_value) ==
    LET n == tb.shape[1]
        from(i) == IF wrap THEN ((i - 1 - row_shift) % n) + 1 ELSE i - row_shift
        cell(j, i) == IF from(i) \in 1..n THEN tb.cols[j][from(i)] ELSE fill_value
        col(j) == [i \in 1..n |-> cell(j, i)]
    IN  TB([j \in 1..Len(tb.cols) |-> col(j)],
           [j \in 1..Len(tb.cols) |-> DtypeResolve(tb.dtypes[j], ArrayDtype(col(j)))],
           [j \in 1..Len(tb.cols) |-> 1], tb.shape)

\* Frame.roll(index=shift)
FrameRoll(f, shift) ==
    Shared(FrameInit(f.cls, DataTB(TBShiftRows(f.blocks, shift, TRUE, NaN)),
                     ArgIndex(f.index), ColumnsArg(f.cls, f.columns),
                     f.name, FALSE, FALSE),
           FALSE, KeepsBlocks(FALSE, TRUE), KeepsColumns(f.cls, TRUE, FALSE))

\* Frame.shift(index=shift, fill_value)
FrameShift(f, shift, fill_value) ==
    Shared(FrameInit(f.cls, DataTB(TBShiftRows(f.blocks, shift, FALSE, fill_value)),
                     ArgIndex(f.index), ColumnsArg(f.cls, f.columns),
                     f.name, FALSE, FALSE),
           FALSE, KeepsBlocks(FALSE, TRUE), KeepsColumns(f.cls, TRUE, FALSE))

\* Frame.sort_index()
FrameSortIndex(f) ==
    LET labels == SortedSeq(SeqToSet(f.index))
        order == [k \in 1..Len(labels) |-> PosOf(f.index, labels[k])]
    IN  Shared(FrameInit(f.cls, DataTB(TBRows(f.blocks, order)), ArgSeq(labels),
                         ColumnsArg(f.cls, f.columns), f.name, FALSE, FALSE),
               FALSE, KeepsBlocks(FALSE, TRUE), KeepsColumns(f.cls, TRUE, FALSE))

\* Frame.set_index(column), drop=False: the receiver's store and columns
\* are handed to the constructor without own_data and own_columns
FrameSetIndex(f, column) ==
    LET column_iloc == LocToIloc(f.columns, KeyInt(column))
        index_values == f.blocks.cols[column_iloc.i + 1]
    IN  IF column_iloc.kind = "KeyError"
        THEN Shared(ResErr("KeyError"), FALSE, FALSE, FALSE)
        ELSE IF ~IsUnique(index_values)
        THEN Shared(ResErr("ConstructionError"), FALSE, FALSE, FALSE)
        ELSE Shared(FrameInit(f.cls, DataTB(f.blocks), ArgIndex(index_values),
                              ColumnsArg(f.cls, f.columns), 0, TRUE, FALSE),
                    FALSE, KeepsBlocks(TRUE, FALSE), KeepsColumns(f.cls, TRUE, FALSE))

\* FrameAssign.__call__ and FrameAsType.__call__: a new store with own_data,
\* container.columns without own_columns
FrameAssignShared(f, row_key, column_key, value, fill_value) ==
    Shared(FrameAssignCall(f, row_key, column_key, value, fill_value), FALSE,
           KeepsBlocks(FALSE, TRUE), KeepsColumns(f.cls, TRUE, FALSE))

FrameAsTypeShared(f, column_key, dtype, consolidate_arg) ==
    Shared(FrameAsTypeCall(f, column_key, dtype, consolidate_arg), FALSE,
           KeepsBlocks(FALSE, TRUE), KeepsColumns(f.cls, TRUE, FALSE))

-----------------------------------------------------------------------------
(* Specification of an operation on a FrameGO followed by column additions *)

\* a FrameGO of the given columns, one block per column
GoFrame(index, columns, cols) ==
    [cls |-> "FrameGO", index |-> index, columns |-> columns,
     blocks |-> TB(cols, [j \in 1..Len(cols) |-> ArrayDtype(cols[j])],
                   [j \in 1..Len(cols) |-> 1], <<Len(index), Len(columns)>>),
     name |-> 5]

\* receivers: frames of distinct values, a frame with two equal rows and a
\* frame with an unsorted index and a row of NaN
ShareFrames ==
    {SampleFrame("FrameGO", r, c, FALSE) : r \in 1..MaxAxis, c \in 1..MaxAxis}
        \cup {GoFrame(<<21, 22>>, <<31>>, <<<<7, 7>>>>),
              GoFrame(<<22, 21>>, <<31, 32>>, <<<<NaN, 12>>, <<NaN, 14>>>>)}

\* the operations applied to the receiver f, each with its name
ShareResults(f) ==
    {<<"rename", FrameRename(f, 9)>>,
     <<"extract", FrameExtractShared(f, KeyNullSlice, KeyNullSlice)>>,
     <<"drop", FrameDropIloc(f, KeyInt(0))>>,
     <<"dropna", FrameDropNa(f, KeyNone)>>,
     <<"dropna", FrameDropNa(f, KeyList(RangeLabels(Len(f.columns))))>>,
     <<"drop_duplicated", FrameDropDuplicated(f)>>,
     <<"fillna", FrameFillNa(f, 0)>>,
     <<"reindex", FrameReindexShared(f, <<22, 21>>)>>,
     <<"relabel", FrameRelabel(f)>>,
     <<"roll", FrameRoll(f, 1)>>,
     <<"shift", FrameShift(f, 1, NaN)>>,
     <<"sort_index", FrameSortIndex(f)>>,
     <<"set_index", FrameSetIndex(f, ColLabel(1))>>,
     <<"assign", FrameAssignShared(f, KeyNullSlice, KeyInt(0),
                                   OtherSeries(AssignSeries(f.index)), NaN)>>,
     <<"astype", FrameAsTypeShared(f, KeyInt(0), "float", "default")>>}

\* frame holds the receiver g and result the returned h; g_own and h_own are
\* the two containers as their own calls left them
ShareCall(op, last, is_self, blocks_alias, columns_alias, g_own, h_own) ==
    [op |-> op, last |-> last, is_self |-> is_self, blocks_alias |-> blocks_alias,
     columns_alias |-> columns_alias, g_own |-> g_own, h_own |-> h_own]

InitShare ==
    /\ frame \in ShareFrames
    /\ result = ResNone
    /\ call = ShareCall("none", "none", FALSE, FALSE, FALSE, NoFrame, NoFrame)
    /\ PoolIdle

Operate ==
    /\ call.op = "none"
    /\ \E made \in ShareResults(frame) :
        /\ result' = made[2].res
        /\ call' = ShareCall(made[1], "op", made[2].is_self, made[2].blocks_alias,
                             made[2].columns_alias, frame,
                             IF made[2].res.kind = "frame" THEN made[2].res.frame
                             ELSE NoFrame)
        /\ UNCHANGED <<frame, poolVars>>

ShareKeys == {32, 33}

ShareValues == {ValElement(7), ValList(<<51>>)}

\* what the other container shows after one container has changed to now:
\* everything when the two are one object, and else the objects they share
SeenThrough(other, now) ==
    IF call.is_self THEN now
    ELSE [other EXCEPT !.blocks = IF call.blocks_alias THEN now.blocks ELSE @,
                       !.columns = IF call.columns_alias THEN now.columns ELSE @]

\* g[key] = value
AddToReceiver ==
    /\ call.op # "none"
    /\ result.kind = "frame"
    /\ \E key \in ShareKeys, value \in ShareValues :
        LET eff == FrameGOSetItem(frame, key, value, NaN)
        IN  /\ Len(eff.frame.columns) <= MaxGoCols
            /\ frame' = eff.frame
            /\ result' = ResFrame(SeenThrough(result.frame, eff.frame))
            /\ call' = [call EXCEPT !.last = "receiver", !.g_own = eff.frame]
            /\ UNCHANGED poolVars

\* h[key] = value
AddToResult ==
    /\ call.op # "none"
    /\ result.kind = "frame"
    /\ \E key \in ShareKeys, value \in ShareValues :
        LET eff == FrameGOSetItem(result.frame, key, value, NaN)
        IN  /\ Len(eff.frame.columns) <= MaxGoCols
            /\ result' = ResFrame(eff.frame)
            /\ frame' = SeenThrough(frame, eff.frame)
            /\ call' = [call EXCEPT !.last = "result", !.h_own = eff.frame]
            /\ UNCHANGED poolVars

NextShare == Operate \/ AddToReceiver \/ AddToResult

SpecShare == InitShare /\ [][NextShare]_vars

\* the container has the columns and the shape c has
HasColumnsOf(f, c) ==
    f.columns = c.columns /\ f.blocks.shape = c.blocks.shape

\* the two containers are distinct objects that share neither the block
\* store nor the columns index, and each has the columns its own calls gave
IsIndependent ==
    /\ ~call.is_self
    /\ ~call.blocks_alias
    /\ ~call.columns_alias
    /\ HasColumnsOf(frame, call.g_own)
    /\ HasColumnsOf(result.frame, call.h_own)

\* C28: no Frame-returning operation on a FrameGO g returns g itself or an
\* object sharing g's columns index or block store: after h = g.op(...), a
\* column added to h does not change g's columns or shape, and a column
\* added to g does not change h.
C28_ResultIndependent ==
    (call.op # "none" /\ result.kind = "frame") => IsIndependent

\* the same for every operation but drop_duplicated
C28_ResultIndependent_Others ==
    (call.op \notin {"none", "drop_duplicated"} /\ result.kind = "frame") =>
        IsIndependent

\* drop_duplicated on a frame without duplicated rows, and a column then
\* added to the result shows in the receiver
C28_DropDuplicatedReturnsSelf ==
    /\ call.op = "drop_duplicated"
    /\ call.is_self
    /\ call.last = "result"
    /\ Len(frame.columns) > Len(call.g_own.columns)

-----------------------------------------------------------------------------
(* Frame.from_records with dtypes=None *)

\* A field value of a record: a Python int, or a float that is whole, has a
\* fractional part, or is NaN.
IntValue(n) == [type |-> "int", whole |-> n, frac |-> FALSE, nan |-> FALSE]

FloatValue(n, frac) == [type |-> "float", whole |-> n, frac |-> frac, nan |-> FALSE]

FloatNaN == [type |-> "float", whole |-> 0, frac |-> FALSE, nan |-> TRUE]

\* np.fromiter(values, count, dtype): each value is converted to the dtype;
\* int() of a float drops the fractional part and int() of NaN raises
\* ValueError
FromIterRaises(values, dtype) ==
    dtype = "int" /\ \E i \in 1..Len(values) : values[i].nan

FromIter(values, dtype) ==
    [i \in 1..Len(values) |->
        IF dtype = "int" THEN IntValue(values[i].whole)
        ELSE [values[i] EXCEPT !.type = "float"]]

\* np.array(values, dtype=None): the dtype that holds every value
NpArrayDtype(values) ==
    IF \E i \in 1..Len(values) : values[i].type = "float" THEN "float" ELSE "int"

NpArray(values) ==
    [i \in 1..Len(values) |-> [values[i] EXCEPT !.type = NpArrayDtype(values)]]

\* from_records.blocks for one column: the array and its dtype
RecordsBlock(rows, col_key) ==
    LET row_reference == rows[1]
        column_type == row_reference[col_key].type
        values == [r \in 1..Len(rows) |-> rows[r][col_key]]
    IN  IF ~FromIterRaises(values, column_type)
        THEN [values |-> FromIter(values, column_type), dtype |-> column_type]
        ELSE [values |-> NpArray(values), dtype |-> NpArrayDtype(values)]

\* Frame.from_records(records) for records that are tuples of one length
FrameFromRecords(cls, rows) ==
    LET col_count == Len(rows[1])
        made == [j \in 1..col_count |-> RecordsBlock(rows, j)]
        blocks == TB([j \in 1..col_count |-> made[j].values],
                     [j \in 1..col_count |-> made[j].dtype],
                     [j \in 1..col_count |-> 1], <<Len(rows), col_count>>)
    IN  FrameInit(cls, DataTB(blocks), ArgNone, ArgSeq(<<>>), 0, FALSE, FALSE)

-----------------------------------------------------------------------------
(* Specification of from_records *)

RecordValues == {IntValue(1), FloatValue(2, TRUE), FloatNaN}

RecordRows ==
    UNION {[1..r -> [1..c -> RecordValues]] : r \in 1..MaxRows, c \in 1..MaxCols}

RecordsCall(op, records) == [op |-> op, records |-> records]

InitRecords ==
    /\ frame = NoFrame
    /\ result = ResNone
    /\ call = RecordsCall("none", <<>>)
    /\ PoolIdle

FromRecords ==
    /\ call.op = "none"
    /\ \E cls \in Classes, records \in RecordRows :
        /\ result' = FrameFromRecords(cls, records)
        /\ call' = RecordsCall("from_records", records)
        /\ UNCHANGED <<frame, poolVars>>

NextRecords == FromRecords

SpecRecords == InitRecords /\ [][NextRecords]_vars

\* the two values are the same number
SameNumber(a, b) == a.nan = b.nan /\ a.whole = b.whole /\ a.frac = b.frac

\* C29: from_records(records) with dtypes=None returns a Frame whose cell
\* (i, j) equals records[i][j], also when a later record holds a value of
\* another type than the first record: no value is altered.
C29_RecordsKept ==
    (call.op = "from_records") =>
        /\ result.kind = "frame"
        /\ \A i \in 1..Len(call.records) : \A j \in 1..Len(call.records[1]) :
                SameNumber(result.frame.blocks.cols[j][i], call.records[i][j])

\* the same for columns whose first record holds a float, or whose later
\* records hold no fractional value
C29_RecordsKept_Holdable ==
    (call.op = "from_records") =>
        /\ result.kind = "frame"
        /\ \A i \in 1..Len(call.records) : \A j \in 1..Len(call.records[1]) :
                (call.records[1][j].type = "float" \/ ~call.records[i][j].frac) =>
                    SameNumber(result.frame.blocks.cols[j][i], call.records[i][j])

\* the first record holds an int and the second a fractional float in the
\* same field: the column is of the int dtype and the cell holds the whole
\* part
C29_Truncated ==
    /\ call.op = "from_records"
    /\ Len(call.records) = 2
    /\ call.records[1][1] = IntValue(1)
    /\ call.records[2][1] = FloatValue(2, TRUE)
    /\ result.kind = "frame"
    /\ result.frame.blocks.dtypes[1] = "int"
    /\ result.frame.blocks.cols[1][2] = IntValue(2)

-----------------------------------------------------------------------------
(* Frame of an assignment: what it leaves as it was *)

\* the cell (i, j) is outside the selection of the call
IsUnselected(c, f, i, j) ==
    \/ i \notin SeqToSet(KeyPositions(c.row_key, Len(f.index)))
    \/ j \notin SeqToSet(KeyPositions(c.column_key, Len(f.columns)))

\* C30: F.assign.iloc[key](value), and the loc and getitem forms, return a
\* new Frame with F's index, columns and name whose cells outside the
\* selection equal F's cells; F has the same labels, name and cell values
\* after the call as before it, whether the call returns or raises.
C30_AssignFrame ==
    [][call'.op \in {"assign.iloc", "assign.loc", "assign.getitem"} =>
        /\ frame' = frame
        /\ result'.kind = "frame" =>
            /\ result'.frame.cls = frame.cls
            /\ result'.frame.index = frame.index
            /\ result'.frame.columns = frame.columns
            /\ result'.frame.name = frame.name
            /\ result'.frame.blocks.shape = frame.blocks.shape
            /\ \A i \in 1..Len(frame.index), j \in 1..Len(frame.columns) :
                    IsUnselected(call', frame, i, j) =>
                        Cell(result'.frame.blocks, i, j) = Cell(frame.blocks, i, j)
      ]_vars

\* a Series assigned over the first row of a frame of two rows and two
\* columns: the first row is changed, the second is as it was
C30_Witness ==
    /\ call.op = "assign.iloc"
    /\ call.row_key = KeyInt(0)
    /\ call.value.kind = "Series"
    /\ result.kind = "frame"
    /\ frame.blocks.shape = <<2, 2>>
    /\ Cell(result.frame.blocks, 1, 1) # Cell(frame.blocks, 1, 1)
    /\ Cell(result.frame.blocks, 2, 1) = Cell(frame.blocks, 2, 1)
    /\ Cell(result.frame.blocks, 2, 2) = Cell(frame.blocks, 2, 2)
    /\ result.frame.name = frame.name

====
